---- MODULE Spec2Model ----
(***************************************************************************)
(* Gesture channels of the three webcam controllers:                       *)
(*   - WebcamController  (webcam_controller.py): pointer, click, drag,     *)
(*     right-click;                                                        *)
(*   - WebcamKeyboard    (webcam_keyboard.py): finger-count + zone typing; *)
(*   - VirtualKeyboard   (webcam_virtual_keyboard.py): dwell / pinch       *)
(*     selection on an on-screen keyboard.                                 *)
(* Each controller is a single-threaded frame loop; it gets a              *)
(* specification of its own (Spec, SpecKeyboard, SpecVirtual) over its     *)
(* own variables.                                                          *)
(*                                                                         *)
(* Time.  time.time() is modelled as an integer number of ticks.  The      *)
(* pointer controller uses ticks of 50 ms, the zone keyboard ticks of      *)
(* 500 ms and the virtual keyboard ticks of 350 ms, so that every          *)
(* threshold of the source is a whole number of ticks.                     *)
(***************************************************************************)
EXTENDS Integers, Sequences, FiniteSets, TLC

(***************************************************************************)
(* Bounds of the model.                                                    *)
(***************************************************************************)
\* time.time() at construction; larger than every debounce interval, as the
\* epoch clock is, so that the zero-initialised "last" timestamps are stale.
StartTime == 17
\* ticks of the pointer controller's clock that a run may last, with both
\* pinch channels driven
MaxElapsed == 9
\* the same, with the primary channel alone driven
MaxElapsedPrimary == 13
\* ... in the runs with raising input-sink calls and KeyboardInterrupt
MaxElapsedFaults == 8
\* ... in the runs of the click example
MaxElapsedExample == 10
\* ... in the runs with the secondary channel alone driven
MaxElapsedSecondary == 22

(***************************************************************************)
(* WebcamController: configuration (webcam_controller.py, __init__), in    *)
(* ticks of 50 ms and in pixels.                                           *)
(***************************************************************************)
click_debounce == 10
drag_hold_threshold == 7
click_max_duration == 5
right_click_hold_threshold == 3
right_click_debounce == 16
pinch_on == 35
pinch_off == 45
right_on == 35
right_off == 45
\* time.sleep(0.5) of the recalibrate control
recalibrate_sleep == 10

\* Fingertip distances a frame may report (pixels): below the on threshold,
\* on it, inside the hysteresis band, on the off threshold, above it.
Distances == {20, 35, 40, 45, 50}

\* process_hand_landmarks: the gesture data of one detected hand
\* Fingertip positions a frame may report (one screen position: the smoothing
\* window is then given by its length).
CursorPositions == {<<0, 0>>}

GestureData == [index_extended : BOOLEAN,
                thumb_index_distance : Distances,
                thumb_middle_distance : Distances,
                cursor_pos : CursorPositions]

\* deque(maxlen=5) of the cursor smoother
cursor_history_maxlen == 5

\* no call of smooth_cursor_position in the latest frame
NoSmoothCall == [raw |-> <<>>, out |-> <<>>, evicted |-> <<>>]

VARIABLES
    \* WebcamController fields
    mouse_control_enabled, click_enabled, drag_mode, last_click_time,
    pinch_active, pinch_started_at,
    right_pinch_active, right_pinch_started_at, last_right_click_time,
    cursor_history,
    \* the clock, the position of the loop
    now, pc,
    \* the capture device was released; a hand was detected in the frame of
    \* the current loop iteration (gesture_data is not None)
    cap_released, hand_in_frame,
    \* the input-sink calls made so far in the current loop iteration
    calls,
    \* history: button calls since the last arm of the primary channel, and
    \* whether the last step was a gesture release ("short"/"long" hold)
    cycle_calls, release_kind,
    \* history: times of the last two click() calls
    click_log,
    \* history: progress of a dip / band / rise distance series
    hyst_phase, hyst_arms, hyst_releases,
    \* history: number of samples of PinchSeries matched by the latest frames,
    \* each one tick after the one before, and the ticks since the latest one
    series_pos, series_gap,
    \* history: the latest call of smooth_cursor_position (the raw position,
    \* the position returned, the position evicted from the window)
    smooth_call,
    \* history: the mouseDown and mouseUp calls made since construction
    button_log

vars == <<mouse_control_enabled, click_enabled, drag_mode, last_click_time,
          pinch_active, pinch_started_at,
          right_pinch_active, right_pinch_started_at, last_right_click_time,
          cursor_history, now, pc, cap_released, hand_in_frame,
          calls, cycle_calls, release_kind, click_log,
          hyst_phase, hyst_arms, hyst_releases, series_pos, series_gap,
          smooth_call, button_log>>

\* WebcamKeyboard.  The preview text (current_text) and the clear-text key,
\* which no gesture channel reads, are left out.
VARIABLES
    \* WebcamKeyboard fields
    typing_enabled, last_gesture_time,
    finger_count_history, last_finger_count, gesture_confirmed,
    confirmation_frames, current_zone, zone_history,
    current_mode, mode_index,
    \* the clock, the position of the loop
    kb_now, kb_pc,
    \* the action executed and the gesture mode change made in the current
    \* loop iteration
    kb_action, kb_mode_cycle,
    \* history: length of the current run of identical (count, zone) frames
    \* with one hand, typing on, a mode with a table and no debounce pending
    \* (0: none), and the symbols the run emitted
    run_len, run_emits,
    \* history: first and latest frame time of the current run of frames with
    \* both hands open (-1: none), the gesture mode changes made in it, and the
    \* times of the last two gesture mode changes
    open_since, open_last, open_cycles, cycle_log,
    \* history: the times at which the last two symbols were processed
    emit_log

kbvars == <<typing_enabled, last_gesture_time,
            finger_count_history, last_finger_count, gesture_confirmed,
            confirmation_frames, current_zone, zone_history,
            current_mode, mode_index, kb_now, kb_pc,
            kb_action, kb_mode_cycle, run_len, run_emits,
            open_since, open_last, open_cycles, cycle_log, emit_log>>

\* VirtualKeyboard.  Of the on-screen preview buffer (preview_text), which no
\* selection channel reads, the length is kept.
VARIABLES
    \* VirtualKeyboard fields
    selection_method, hover_key, hover_started_at, last_select_time,
    vk_pinch_active, caps_lock, shift_latched,
    \* len(preview_text)
    preview_len,
    \* the clock, the position of the loop
    vk_now, vk_pc,
    \* the key selection accepted and the text typed in the current loop
    \* iteration; a hand was detected in its frame
    vk_selected, vk_typed, vk_hand_in_frame,
    \* history: first and latest frame time of the current continuous hover in
    \* dwell mode that began with a change of the hovered key (-1: no hover,
    \* -2: a hover that began on the key already tracked), and the selections
    \* accepted in it
    dwell_since, dwell_last, dwell_events,
    \* history: progress of the accepted selections Shift (with Caps off), A, B
    case_phase,
    \* history: the pinch distance and the pointing flag of the hand in the
    \* frame of the current loop iteration (None without a hand)
    vk_gesture

vkvars == <<selection_method, hover_key, hover_started_at, last_select_time,
            vk_pinch_active, caps_lock, shift_latched, preview_len,
            vk_now, vk_pc,
            vk_selected, vk_typed, vk_hand_in_frame,
            dwell_since, dwell_last, dwell_events, case_phase, vk_gesture>>

\* ---- the layout of the virtual keyboard (webcam_virtual_keyboard.py) ----
VARIABLES
    \* the size of the frame read last
    frame_w, frame_h,
    \* VirtualKeyboard.key_rects
    key_rects,
    \* position in the loop: "read" (before the frame is read), "frame"
    \* (frame read, rectangles not yet computed)
    ly_pc

lyvars == <<frame_w, frame_h, key_rects, ly_pc>>

\* ---- process_gesture of the zone keyboard, applied to given arguments ----
VARIABLES
    \* the arguments (finger_count, zone) of the last call in the current
    \* mode, and what it returned (None before the first call)
    pg_input, pg_result

pgvars == <<pg_input, pg_result>>


MaxTime == StartTime + MaxElapsed
MaxTimePrimary == StartTime + MaxElapsedPrimary
MaxTimeFaults == StartTime + MaxElapsedFaults

\* Gesture data whose thumb-middle distance stays above right_off: the
\* secondary channel is never driven.
PrimaryGestureData == {g \in GestureData : g.thumb_middle_distance = 50}

InSeq(x, s) == \E i \in 1..Len(s) : s[i] = x
Occurrences(x, s) == Cardinality({i \in 1..Len(s) : s[i] = x})

(***************************************************************************)
(* handle_mouse_control, primary channel (thumb + index).                  *)
(***************************************************************************)
\* (variant: one threshold, no hysteresis band)
PinchReleased_NoHysteresis(g) ==
    (g.thumb_index_distance > pinch_on) \/ ~g.index_extended

\* line 142: the pinch is released
PinchReleased(g) ==
    (g.thumb_index_distance > pinch_off) \/ ~g.index_extended

\* (variant: the debounce test dropped)
ClickAccepted_NoDebounce(duration, current_time) ==
    duration <= click_max_duration

\* (variant: the duration test dropped)
ClickAccepted_NoMaxDuration(duration, current_time) ==
    (current_time - last_click_time) > click_debounce

\* (variant: a pinch held for exactly click_max_duration is not a click)
ClickAccepted_ShortOnly(duration, current_time) ==
    /\ duration < click_max_duration
    /\ (current_time - last_click_time) > click_debounce

\* line 154: a released pinch counts as a left click
ClickAccepted(duration, current_time) ==
    /\ duration <= click_max_duration
    /\ (current_time - last_click_time) > click_debounce

\* (variant: the drag starts one tick early)
DragStarts_Early(current_time) ==
    (~drag_mode) /\ (current_time - pinch_started_at >= drag_hold_threshold - 1)

\* line 164: a held pinch escalates to a drag
DragStarts(current_time) ==
    (~drag_mode) /\ (current_time - pinch_started_at >= drag_hold_threshold)

\* line 173: an idle channel arms
PinchStarts(g) ==
    g.index_extended /\ g.thumb_index_distance < pinch_on

(***************************************************************************)
(* handle_mouse_control, secondary channel (thumb + middle).               *)
(***************************************************************************)
\* line 178: the right-click block runs
RightEnabled_NoDebounce(current_time) ==
    click_enabled

\* line 178: the secondary block runs only with click control on and outside
\* the debounce window of the last right click
RightEnabled(current_time) ==
    click_enabled /\ (current_time - last_right_click_time > right_click_debounce)

\* line 180
RightReleased(g) == g.thumb_middle_distance > right_off

\* (variant: the primary channel is not consulted)
RightClickAccepted_NoPrimaryGuard(duration, pa, dm) ==
    duration >= right_click_hold_threshold

\* (variant: the hold test dropped)
RightClickAccepted_NoHold(duration, pa, dm) ==
    ~dm /\ ~pa

\* line 183: pa, dm are pinch_active, drag_mode as the primary block left them
RightClickAccepted(duration, pa, dm) ==
    duration >= right_click_hold_threshold /\ ~dm /\ ~pa

\* (variant: the primary channel is not consulted)
RightPinchStarts_NoPrimaryGuard(g, pa) ==
    g.thumb_middle_distance < right_on

\* line 193
RightPinchStarts(g, pa) ==
    (~pa) /\ (g.thumb_middle_distance < right_on)

(***************************************************************************)
(* The state after construction (__init__).                               *)
(***************************************************************************)
Init ==
    /\ mouse_control_enabled = TRUE
    /\ click_enabled = TRUE
    /\ drag_mode = FALSE
    /\ last_click_time = 0
    /\ pinch_active = FALSE
    /\ pinch_started_at = 0
    /\ right_pinch_active = FALSE
    /\ right_pinch_started_at = 0
    /\ last_right_click_time = 0
    /\ cursor_history = <<>>
    /\ now = StartTime
    /\ pc = "read"
    /\ cap_released = FALSE
    /\ hand_in_frame = FALSE
    /\ calls = <<>>
    /\ cycle_calls = <<>>
    /\ release_kind = "none"
    /\ click_log = <<>>
    /\ hyst_phase = "idle"
    /\ hyst_arms = 0
    /\ hyst_releases = 0
    /\ series_pos = 0
    /\ series_gap = 0
    /\ smooth_call = NoSmoothCall
    /\ button_log = <<>>

ControlUnchanged == UNCHANGED <<mouse_control_enabled, click_enabled>>
RunUnchanged == UNCHANGED cap_released
ChannelUnchanged ==
    UNCHANGED <<drag_mode, last_click_time, pinch_active, pinch_started_at,
                right_pinch_active, right_pinch_started_at,
                last_right_click_time>>
HistoryUnchanged ==
    UNCHANGED <<cycle_calls, release_kind, click_log,
                hyst_phase, hyst_arms, hyst_releases>>

SeriesUnchanged == UNCHANGED <<series_pos, series_gap, smooth_call>>

(***************************************************************************)
(* run, line 246: cap.read() blocks until the next frame; the clock moves. *)
(***************************************************************************)
WaitUntil(horizon) ==
    /\ pc \in {"read", "ready"}
    /\ UNCHANGED button_log
    /\ UNCHANGED <<kbvars, vkvars, lyvars, pgvars>> /\ SeriesUnchanged
    /\ now < horizon
    /\ now' = now + 1
    /\ pc' = "ready"
    /\ calls' = <<>>
    /\ UNCHANGED <<cursor_history, hand_in_frame>>
    /\ ControlUnchanged /\ ChannelUnchanged /\ HistoryUnchanged /\ RunUnchanged

\* Progress of the series "dips below pinch_on, stays inside the band, rises
\* above pinch_off", for frames with click control on and the index extended.
HystNext(g, armed, released) ==
    LET d == g.thumb_index_distance
        ok == click_enabled /\ g.index_extended
        phase ==
            IF ~ok THEN "idle"
            ELSE IF hyst_phase \in {"idle", "rise", "rise0"}
                 THEN (IF d < pinch_on /\ ~pinch_active THEN "dip" ELSE "idle")
            ELSE IF d > pinch_off
                 THEN (IF hyst_phase = "band" THEN "rise" ELSE "rise0")
            ELSE IF d > pinch_on /\ d < pinch_off THEN "band"
            ELSE IF d < pinch_on /\ hyst_phase = "dip" THEN "dip"
            ELSE "idle"
        fresh == hyst_phase \in {"idle", "rise", "rise0"}
    IN  /\ hyst_phase' = phase
        /\ hyst_arms' =
             IF phase = "idle" THEN 0
             ELSE (IF fresh THEN 0 ELSE hyst_arms) + (IF armed THEN 1 ELSE 0)
        /\ hyst_releases' =
             IF phase = "idle" THEN 0
             ELSE (IF fresh THEN 0 ELSE hyst_releases) + (IF released THEN 1 ELSE 0)

(***************************************************************************)
(* run, lines 259-272 with handle_mouse_control (lines 121-195): a frame   *)
(* with a detected hand.  raised names the input-sink call of the frame    *)
(* that raises an exception other than FailSafeException ("none": every    *)
(* call returns); the handler is left at that call.                        *)
(***************************************************************************)
\* (variant: a full window keeps its samples and drops the new one)
CursorAppend_KeepOldest(history, pos) ==
    IF Len(history) >= cursor_history_maxlen THEN history
    ELSE Append(history, pos)

\* smooth_cursor_position, line 77: cursor_history.append
CursorAppend(history, pos) ==
    LET h == Append(history, pos)
    IN  IF Len(h) > cursor_history_maxlen THEN Tail(h) ELSE h

\* the mouseDown and mouseUp calls among the calls cs
ButtonPresses(cs) ==
    LET IsPress(c) == c \in {"mouseDown", "mouseUp"}
    IN  SelectSeq(cs, IsPress)

\* (variant: the primary channel runs whether click control is on or off)
PrimaryEnabled_Always == TRUE

\* line 138: the primary channel runs while click control is on
PrimaryEnabled == click_enabled

\* (variant: the release of a drag leaves drag_mode as it is)
DragAfterRelease_Kept(dm) == dm

\* line 149: drag_mode after the release that ends a drag
DragAfterRelease(dm) == FALSE

HandleMouseControlWith(g, raised) ==
    LET current_time == now
        moved == mouse_control_enabled /\ g.index_extended
        \* primary channel
        released == PrimaryEnabled /\ pinch_active /\ PinchReleased(g)
        duration == current_time - pinch_started_at
        dragEnd == released /\ drag_mode
        click == released /\ ~drag_mode /\ ClickAccepted(duration, current_time)
        dragStart == PrimaryEnabled /\ pinch_active /\ ~PinchReleased(g)
                     /\ DragStarts(current_time)
        armed == PrimaryEnabled /\ ~pinch_active /\ PinchStarts(g)
        pa == IF released THEN FALSE ELSE IF armed THEN TRUE ELSE pinch_active
        dm == IF dragEnd THEN DragAfterRelease(drag_mode)
              ELSE IF dragStart THEN TRUE ELSE drag_mode
        \* secondary channel
        renabled == RightEnabled(current_time)
        rreleased == renabled /\ right_pinch_active /\ RightReleased(g)
        rduration == current_time - right_pinch_started_at
        rclick == rreleased /\ RightClickAccepted(rduration, pa, dm)
        rarmed == renabled /\ ~right_pinch_active /\ RightPinchStarts(g, pa)
        button == (IF dragEnd THEN <<"mouseUp">> ELSE <<>>)
                  \o (IF click THEN <<"click">> ELSE <<>>)
                  \o (IF dragStart THEN <<"mouseDown">> ELSE <<>>)
        \* the handler is left before the primary channel's assignments
        early == raised \in {"moveTo", "button"}
    IN  /\ raised = "moveTo" => moved
        /\ raised = "button" => button # <<>>
        /\ raised = "rightClick" => rclick
        /\ cursor_history' =
             IF moved THEN CursorAppend(cursor_history, g.cursor_pos)
             ELSE cursor_history
        /\ pinch_active' = IF early THEN pinch_active ELSE pa
        /\ drag_mode' = IF early THEN drag_mode ELSE dm
        /\ pinch_started_at' =
             IF armed /\ ~early THEN current_time ELSE pinch_started_at
        /\ last_click_time' =
             IF click /\ ~early THEN current_time ELSE last_click_time
        /\ right_pinch_active' =
             IF raised # "none" THEN right_pinch_active
             ELSE IF rreleased THEN FALSE
             ELSE IF rarmed THEN TRUE ELSE right_pinch_active
        /\ right_pinch_started_at' =
             IF rarmed /\ raised = "none" THEN current_time
             ELSE right_pinch_started_at
        /\ last_right_click_time' =
             IF rclick /\ raised = "none" THEN current_time
             ELSE last_right_click_time
        /\ calls' =
             (IF moved THEN <<"moveTo">> ELSE <<>>)
             \o (IF raised = "moveTo" THEN <<>> ELSE button)
             \o (IF rclick /\ ~early THEN <<"rightClick">> ELSE <<>>)
        /\ button_log' =
             button_log \o (IF raised = "moveTo" THEN <<>>
                            ELSE ButtonPresses(button))

\* every input-sink call of the frame returns
HandleMouseControl(g) == HandleMouseControlWith(g, "none")

\* The histories of a frame with a hand, read off the step the handler makes.
ObserveFrame(g) ==
    LET armed == ~pinch_active /\ pinch_active'
        released == pinch_active /\ ~pinch_active'
        duration == now - pinch_started_at
        click == InSeq("click", calls')
        IsButton(c) == c \in {"mouseUp", "click", "mouseDown"}
        button == SelectSeq(calls', IsButton)
    IN  /\ cycle_calls' = IF armed THEN <<>> ELSE cycle_calls \o button
        /\ release_kind' =
             IF ~released THEN "none"
             ELSE IF duration >= drag_hold_threshold THEN "long" ELSE "short"
        /\ click_log' =
             IF click
             THEN (IF Len(click_log) < 2 THEN click_log ELSE Tail(click_log))
                  \o <<now>>
             ELSE click_log
        /\ HystNext(g, armed, released)

FrameHandIn(G) ==
    /\ pc = "ready"
    /\ UNCHANGED <<kbvars, vkvars, lyvars, pgvars>> /\ SeriesUnchanged
    /\ \E g \in G : HandleMouseControl(g)
    /\ pc' = "key"
    /\ hand_in_frame' = TRUE
    /\ UNCHANGED now
    /\ ControlUnchanged /\ RunUnchanged /\ HistoryUnchanged

\* the same frame, with the histories kept
FrameHandObservedIn(G) ==
    /\ pc = "ready"
    /\ UNCHANGED <<kbvars, vkvars, lyvars, pgvars>> /\ SeriesUnchanged
    /\ \E g \in G : HandleMouseControl(g) /\ ObserveFrame(g)
    /\ pc' = "key"
    /\ hand_in_frame' = TRUE
    /\ UNCHANGED now
    /\ ControlUnchanged /\ RunUnchanged

\* run, lines 268 and 302-305: an input-sink call of the handler raises; run's
\* except Exception ends the loop
FrameHandRaisesIn(G) ==
    /\ pc = "ready"
    /\ UNCHANGED <<kbvars, vkvars, lyvars, pgvars>> /\ SeriesUnchanged
    /\ \E g \in G :
          \E raised \in {"moveTo", "button", "rightClick"} :
              HandleMouseControlWith(g, raised)
    /\ pc' = "raised"
    /\ hand_in_frame' = TRUE
    /\ UNCHANGED <<now, cap_released>>
    /\ ControlUnchanged /\ HistoryUnchanged

\* frames with the primary pinch open and the index extended
SecondaryGestureData == [index_extended : {TRUE},
                         thumb_index_distance : {50},
                         thumb_middle_distance : {20, 40, 50},
                         cursor_pos : CursorPositions]

\* the distance series of the click example: one sample per frame, 50 ms
\* (one tick) apart, index finger extended throughout
PinchSeries == <<50, 40, 30, 20, 30, 40, 50>>

\* frames of the click example: the distances of PinchSeries, the secondary
\* pinch open
ExampleGestureData == [index_extended : BOOLEAN,
                       thumb_index_distance : {20, 30, 40, 50},
                       thumb_middle_distance : {50},
                       cursor_pos : CursorPositions]

\* Progress of PinchSeries over a frame with gesture data g.
SeriesNext(g) ==
    LET d == g.thumb_index_distance
        follows == /\ g.index_extended
                   /\ series_pos \in 1..(Len(PinchSeries) - 1)
                   /\ series_gap = 1
                   /\ d = PinchSeries[series_pos + 1]
        starts == g.index_extended /\ d = PinchSeries[1]
    IN  /\ series_pos' = IF follows THEN series_pos + 1
                         ELSE IF starts THEN 1 ELSE 0
        /\ series_gap' = 0

\* run, line 246: the clock moves by one tick; a second tick without a frame
\* ends the series
WaitSeries(horizon) ==
    /\ pc \in {"read", "ready"}
    /\ UNCHANGED button_log
    /\ UNCHANGED <<kbvars, vkvars, lyvars, pgvars, smooth_call>>
    /\ now < horizon
    /\ now' = now + 1
    /\ pc' = "ready"
    /\ calls' = <<>>
    /\ series_pos' = IF series_gap = 1 THEN 0 ELSE series_pos
    /\ series_gap' = IF series_pos = 0 \/ series_gap = 1 THEN 0 ELSE 1
    /\ UNCHANGED <<cursor_history, hand_in_frame>>
    /\ ControlUnchanged /\ ChannelUnchanged /\ HistoryUnchanged /\ RunUnchanged

\* run, lines 256-272: a frame with a hand, with the progress of PinchSeries
FrameHandSeriesIn(G) ==
    /\ pc = "ready"
    /\ UNCHANGED <<kbvars, vkvars, lyvars, pgvars, smooth_call>>
    /\ \E g \in G : HandleMouseControl(g) /\ SeriesNext(g)
    /\ pc' = "key"
    /\ hand_in_frame' = TRUE
    /\ UNCHANGED now
    /\ ControlUnchanged /\ RunUnchanged /\ HistoryUnchanged

\* (variant: a frame without a hand releases the drag)
NoHandChannel_ReleasesDrag ==
    /\ drag_mode' = FALSE
    /\ UNCHANGED <<last_click_time, pinch_active, pinch_started_at,
                   right_pinch_active, right_pinch_started_at,
                   last_right_click_time>>

\* run, line 259: without a hand handle_mouse_control is not called
NoHandChannel == ChannelUnchanged

\* run, line 259: no hand in the frame
FrameNoHand ==
    /\ pc = "ready"
    /\ UNCHANGED button_log
    /\ UNCHANGED <<kbvars, vkvars, lyvars, pgvars>> /\ SeriesUnchanged
    /\ pc' = "key"
    /\ calls' = <<>>
    /\ hand_in_frame' = FALSE
    /\ release_kind' = "none"
    /\ UNCHANGED <<now, cursor_history, cycle_calls, click_log,
                   hyst_phase, hyst_arms, hyst_releases>>
    /\ ControlUnchanged /\ NoHandChannel /\ RunUnchanged

\* run, lines 247-249: the capture device fails
CaptureFail ==
    /\ pc = "ready"
    /\ UNCHANGED button_log
    /\ UNCHANGED <<kbvars, vkvars, lyvars, pgvars>> /\ SeriesUnchanged
    /\ pc' = "cleanup"
    /\ calls' = <<>>
    /\ release_kind' = "none"
    /\ UNCHANGED <<now, cursor_history, cap_released, hand_in_frame,
                   cycle_calls, click_log,
                   hyst_phase, hyst_arms, hyst_releases>>
    /\ ControlUnchanged /\ ChannelUnchanged

\* run, lines 300-301: KeyboardInterrupt while the loop waits for a frame or
\* a key
Interrupt ==
    /\ pc \in {"read", "ready", "key"}
    /\ UNCHANGED button_log
    /\ UNCHANGED <<kbvars, vkvars, lyvars, pgvars>> /\ SeriesUnchanged
    /\ pc' = "interrupted"
    /\ UNCHANGED <<now, calls, cursor_history, cap_released, hand_in_frame>>
    /\ ControlUnchanged /\ ChannelUnchanged /\ HistoryUnchanged

(***************************************************************************)
(* run, lines 281-298: the key read by cv2.waitKey(1).                     *)
(***************************************************************************)
KeyNone ==
    /\ pc = "key"
    /\ UNCHANGED button_log
    /\ UNCHANGED <<kbvars, vkvars, lyvars, pgvars>> /\ SeriesUnchanged
    /\ pc' = "read"
    /\ hand_in_frame' = FALSE
    /\ UNCHANGED <<now, calls, cursor_history>>
    /\ ControlUnchanged /\ ChannelUnchanged /\ HistoryUnchanged /\ RunUnchanged

KeyQuit ==
    /\ pc = "key"
    /\ UNCHANGED button_log
    /\ UNCHANGED <<kbvars, vkvars, lyvars, pgvars>> /\ SeriesUnchanged
    /\ pc' = "cleanup"
    /\ UNCHANGED <<now, calls, cursor_history, cap_released, hand_in_frame>>
    /\ ControlUnchanged /\ ChannelUnchanged /\ HistoryUnchanged

KeyM ==
    /\ pc = "key"
    /\ UNCHANGED button_log
    /\ UNCHANGED <<kbvars, vkvars, lyvars, pgvars>> /\ SeriesUnchanged
    /\ mouse_control_enabled' = ~mouse_control_enabled
    /\ pc' = "read"
    /\ hand_in_frame' = FALSE
    /\ UNCHANGED <<now, calls, click_enabled, cursor_history>>
    /\ ChannelUnchanged /\ HistoryUnchanged /\ RunUnchanged

KeyC ==
    /\ pc = "key"
    /\ UNCHANGED button_log
    /\ UNCHANGED <<kbvars, vkvars, lyvars, pgvars>> /\ SeriesUnchanged
    /\ click_enabled' = ~click_enabled
    /\ pc' = "read"
    /\ hyst_phase' = "idle" /\ hyst_arms' = 0 /\ hyst_releases' = 0
    /\ hand_in_frame' = FALSE
    /\ UNCHANGED <<now, calls, mouse_control_enabled, cursor_history,
                   cycle_calls, release_kind, click_log>>
    /\ ChannelUnchanged /\ RunUnchanged

\* (variant: recalibrate always issues mouseUp)
RecalibrateRelease_Always(dm) == <<"mouseUp">>

\* lines 293-295: recalibrate releases a drag in progress
RecalibrateRelease(dm) == IF dm THEN <<"mouseUp">> ELSE <<>>

\* lines 290-298: recalibrate; time.sleep(0.5) moves the clock
KeySpace ==
    /\ pc = "key"
    /\ UNCHANGED <<kbvars, vkvars, lyvars, pgvars>> /\ SeriesUnchanged
    /\ cursor_history' = <<>>
    /\ calls' = calls \o RecalibrateRelease(drag_mode)
    /\ button_log' = button_log \o RecalibrateRelease(drag_mode)
    /\ cycle_calls' = cycle_calls \o RecalibrateRelease(drag_mode)
    /\ drag_mode' = FALSE
    /\ pinch_active' = FALSE
    /\ right_pinch_active' = FALSE
    /\ now' = now + recalibrate_sleep
    /\ pc' = "read"
    /\ release_kind' = "none"
    /\ hyst_phase' = "idle" /\ hyst_arms' = 0 /\ hyst_releases' = 0
    /\ hand_in_frame' = FALSE
    /\ UNCHANGED <<last_click_time, pinch_started_at, right_pinch_started_at,
                   last_right_click_time, click_log>>
    /\ ControlUnchanged /\ RunUnchanged

\* lines 290-294 and 302-305: recalibrate's mouseUp, which has no handler of
\* its own, raises; run's except Exception ends the loop
KeySpaceRaises ==
    /\ pc = "key"
    /\ UNCHANGED <<kbvars, vkvars, lyvars, pgvars>> /\ SeriesUnchanged
    /\ drag_mode
    /\ cursor_history' = <<>>
    /\ calls' = calls \o <<"mouseUp">>
    /\ button_log' = button_log \o <<"mouseUp">>
    /\ cycle_calls' = cycle_calls \o <<"mouseUp">>
    /\ pc' = "raised"
    /\ UNCHANGED <<now, cap_released, hand_in_frame, release_kind, click_log,
                   hyst_phase, hyst_arms, hyst_releases>>
    /\ ControlUnchanged /\ ChannelUnchanged

\* (variant: cleanup issues mouseUp with or without a drag in progress)
CleanupRelease_Always(dm) == <<"mouseUp">>

\* (variant: cleanup issues no mouseUp)
CleanupRelease_Never(dm) == <<>>

\* cleanup, lines 309-313: a drag in progress is released
CleanupRelease(dm) == IF dm THEN <<"mouseUp">> ELSE <<>>

\* run, lines 299-305, and cleanup, lines 307-318: the loop has ended by
\* break, KeyboardInterrupt or an exception
Cleanup ==
    /\ pc \in {"cleanup", "interrupted", "raised"}
    /\ UNCHANGED <<kbvars, vkvars, lyvars, pgvars>> /\ SeriesUnchanged
    /\ calls' = calls \o CleanupRelease(drag_mode)
    /\ button_log' = button_log \o CleanupRelease(drag_mode)
    /\ cap_released' = TRUE
    /\ pc' = "done"
    /\ UNCHANGED <<now, cursor_history, hand_in_frame,
                   cycle_calls, release_kind, click_log,
                   hyst_phase, hyst_arms, hyst_releases>>
    /\ ControlUnchanged /\ ChannelUnchanged

(***************************************************************************)
(* WebcamKeyboard (webcam_keyboard.py): finger count + zone typing.        *)
(* Ticks of 500 ms.  Several frames may fall into one tick, and the clock  *)
(* may move between two reads of time.time() inside one frame.             *)
(***************************************************************************)
\* bounds: time.time() at construction, and the ticks a run may last, in
\* the typing runs (one hand) and in the mode-switch runs (two hands)
KbStartTime == 5
KbMaxElapsed == 3
KbMaxElapsedModes == 5
\* ... in the runs with one gesture held
KbMaxElapsedHeld == 4
\* ... in the runs that repeat symbols
KbMaxElapsedRepeat == 3

gesture_debounce == 2
required_confirmation == 8
\* the literal 2.0 of the mode-change test
mode_change_cooldown == 4
\* maxlen of finger_count_history and zone_history
history_maxlen == 5

None == "None"

\* get_zone_index: the zone names in table order
zone_names == <<"top_left", "top_center", "top_right",
                "mid_left", "mid_center", "mid_right",
                "bot_left", "bot_center", "bot_right">>

\* __init__, line 52
modes == <<"LETTERS", "NUMBERS", "SYMBOLS", "ACTIONS">>

\* setup_character_mapping (the back-quote character is written "backquote")
character_maps ==
    ("LETTERS" :>
        (1 :> <<"a", "b", "c", "d", "e", "f", "g", "h", "i">> @@
         2 :> <<"j", "k", "l", "m", "n", "o", "p", "q", "r">> @@
         3 :> <<"s", "t", "u", "v", "w", "x", "y", "z", ".">> @@
         4 :> <<"A", "B", "C", "D", "E", "F", "G", "H", "I">> @@
         5 :> <<"J", "K", "L", "M", "N", "O", "P", "Q", "R">>)) @@
    ("NUMBERS" :>
        (1 :> <<"1", "2", "3", "4", "5", "6", "7", "8", "9">> @@
         2 :> <<"0", "+", "-", "*", "/", "=", "(", ")", "%">> @@
         3 :> <<"!", "@", "#", "$", "&", "?", ",", ";", ":">> @@
         4 :> <<"<", ">", "[", "]", "{", "}", "|", "\\", "\"">> @@
         5 :> <<"~", "backquote", "^", "_", "'", ".", ",", "!", "?">>)) @@
    ("ACTIONS" :>
        (1 :> <<"ENTER", "TAB", "ESC", "DELETE", "HOME", "END", "UP", "DOWN", "LEFT">> @@
         2 :> <<"RIGHT", "PGUP", "PGDN", "F1", "F2", "F3", "F4", "F5", "F6">> @@
         3 :> <<"F7", "F8", "F9", "F10", "F11", "F12", "CTRL", "ALT", "SHIFT">> @@
         4 :> <<"COPY", "PASTE", "CUT", "UNDO", "REDO", "SAVE", "FIND", "REPLACE", "SELECT">> @@
         5 :> <<"CAPS", "NUM", "SCROLL", "PAUSE", "PRINT", "INSERT", "MENU", "WIN", "CMD">>))

\* What the hand detector reports for one frame: the number of hands, the
\* primary hand's finger count and zone, whether the second hand shows five
\* fingers, and whether the clock ticks between the two reads of time.time()
\* the frame makes (process_gesture and line 385, or line 399 and line 401).
KbOneHand ==
    {f \in [hands : {1}, count : {1, 5}, zone : {"top_left", "mid_center"},
            second_open : {FALSE}, tick_inside : BOOLEAN] :
        f.count = 5 => f.zone = "top_left"}
KbTwoHands == [hands : {2}, count : {5}, zone : {"top_left"},
               second_open : BOOLEAN, tick_inside : BOOLEAN]

\* frames with one hand that shows one finger in one of two zones
KbRepeatHand == [hands : {1}, count : {1}, zone : {"top_left", "mid_center"},
                 second_open : {FALSE}, tick_inside : BOOLEAN]

\* frames with one hand that holds one mapped gesture
KbHeldHand == [hands : {1}, count : {1}, zone : {"top_left"},
               second_open : {FALSE}, tick_inside : {FALSE}]

KbMaxTime == KbStartTime + KbMaxElapsed
KbMaxTimeHeld == KbStartTime + KbMaxElapsedHeld
KbMaxTimeRepeat == KbStartTime + KbMaxElapsedRepeat
KbMaxTimeModes == KbStartTime + KbMaxElapsedModes

\* deque(maxlen=5).append
DequeAppend(history, x) ==
    LET h == Append(history, x)
    IN  IF Len(h) > history_maxlen THEN Tail(h) ELSE h

\* list(history)[-3:]
Recent(history) ==
    IF Len(history) <= 3 THEN history
    ELSE SubSeq(history, Len(history) - 2, Len(history))

SeqSet(h) == {h[i] : i \in 1..Len(h)}

\* get_zone_index, lines 141-149
get_zone_index(zone_name) ==
    IF \E i \in 1..Len(zone_names) : zone_names[i] = zone_name
    THEN (CHOOSE i \in 1..Len(zone_names) : zone_names[i] = zone_name) - 1
    ELSE 0

\* (variant: no debounce)
GestureDebounced_Never(current_time) ==
    FALSE

\* process_gesture, line 155: the call falls inside the debounce window
GestureDebounced(current_time) ==
    current_time - last_gesture_time < gesture_debounce

\* process_gesture, lines 151-175: the action, None, or a KeyError raised by
\* the table lookup of a mode that has no table
process_gesture(finger_count, zone, current_time) ==
    IF GestureDebounced(current_time) THEN None
    ELSE IF zone = None THEN None
    ELSE IF finger_count = 0 THEN " "
    ELSE IF finger_count = 5 /\ zone \in {"top_left", "top_center", "top_right"}
         THEN "BACKSPACE"
    ELSE IF current_mode \notin DOMAIN character_maps THEN "KeyError"
    ELSE IF finger_count \in DOMAIN character_maps[current_mode]
         THEN LET zone_index == get_zone_index(zone)
                  char_list == character_maps[current_mode][finger_count]
              IN  IF zone_index < Len(char_list)
                  THEN char_list[zone_index + 1] ELSE None
    ELSE None

\* change_mode, lines 219-223: the next mode index
next_mode_index(i) == (i + 1) % Len(modes)

\* (variant: the zones are not compared)
StableGesture_CountOnly(counts, zones) ==
    Cardinality(SeqSet(Recent(counts))) = 1

\* line 372: the last three frames show one count and one zone
StableGesture(counts, zones) ==
    Cardinality(SeqSet(Recent(counts))) = 1
    /\ Cardinality(SeqSet(Recent(zones))) = 1

\* (variant: the two-hand flag is not consulted)
GestureTyped_BothHands(typing, both_hands_open) ==
    typing

\* line 381: a confirmed gesture is processed for typing
GestureTyped(typing, both_hands_open) ==
    typing /\ ~both_hands_open

\* (variant: one frame more)
ConfirmationReached_Late(frames) == frames > required_confirmation

\* line 376
ConfirmationReached(frames) == frames >= required_confirmation

\* (variant: no cooldown)
ModeChangeDue_NoCooldown(both_hands_open, current_time, last_time) ==
    both_hands_open

\* line 399: the mode-change gesture fires
ModeChangeDue(both_hands_open, current_time, last_time) ==
    both_hands_open /\ current_time - last_time > mode_change_cooldown

KbInit ==
    /\ typing_enabled = TRUE
    /\ last_gesture_time = 0
    /\ finger_count_history = <<>>
    /\ last_finger_count = 0
    /\ gesture_confirmed = FALSE
    /\ confirmation_frames = 0
    /\ current_zone = None
    /\ zone_history = <<>>
    /\ current_mode = "LETTERS"
    /\ mode_index = 0
    /\ kb_now = KbStartTime
    /\ kb_pc = "read"
    /\ kb_action = None
    /\ kb_mode_cycle = FALSE
    /\ run_len = 0
    /\ run_emits = 0
    /\ open_since = -1
    /\ open_last = -1
    /\ open_cycles = 0
    /\ cycle_log = <<>>
    /\ emit_log = <<>>

KbHistoryUnchanged ==
    UNCHANGED <<run_len, run_emits, open_since, open_last, open_cycles,
                cycle_log, emit_log>>

\* run, line 322: cap.read() blocks until the next frame; the clock moves.
KbWaitUntil(horizon) ==
    /\ kb_pc = "read"
    /\ UNCHANGED <<vars, vkvars, lyvars, pgvars>>
    /\ kb_now < horizon
    /\ kb_now' = kb_now + 1
    /\ UNCHANGED <<typing_enabled, last_gesture_time,
                   finger_count_history, last_finger_count, gesture_confirmed,
                   confirmation_frames, current_zone, zone_history,
                   current_mode, mode_index, kb_pc, kb_action, kb_mode_cycle>>
    /\ KbHistoryUnchanged

\* The histories of a frame with hands: C7's run and the both-hands-open run.
KbObserve(f, executed, cycles, both_hands_open) ==
    LET same == finger_count_history # <<>>
                /\ finger_count_history[Len(finger_count_history)] = f.count
                /\ zone_history[Len(zone_history)] = f.zone
        eligible == f.hands = 1 /\ typing_enabled
                    /\ current_mode \in DOMAIN character_maps
                    /\ kb_now - last_gesture_time >= gesture_debounce
        len1 == IF ~eligible THEN 0
                ELSE IF finger_count_history = <<>> \/ ~same THEN 1
                ELSE IF run_len = 0 THEN 0
                ELSE IF run_len > required_confirmation + 2 THEN run_len
                ELSE run_len + 1
        fresh == open_since = -1
    IN  /\ run_len' = len1
        /\ run_emits' =
             IF len1 = 0 THEN 0
             ELSE (IF len1 = 1 THEN 0 ELSE run_emits) + (IF executed THEN 1 ELSE 0)
        /\ open_since' =
             IF ~both_hands_open THEN -1
             ELSE IF fresh THEN kb_now ELSE open_since
        /\ open_last' = IF both_hands_open THEN kb_now ELSE -1
        /\ open_cycles' =
             IF ~both_hands_open THEN 0
             ELSE (IF fresh THEN 0 ELSE open_cycles) + (IF cycles THEN 1 ELSE 0)
        /\ cycle_log' =
             IF cycles
             THEN (IF Len(cycle_log) < 2 THEN cycle_log ELSE Tail(cycle_log))
                  \o <<kb_now>>
             ELSE cycle_log

\* run, lines 337-401: a frame with hands.  The first read of time.time() in
\* the frame gives kb_now, the second one gives later.
KbFrame(f) ==
    LET later == IF f.tick_inside THEN kb_now + 1 ELSE kb_now
        both_hands_open == f.hands = 2 /\ f.count = 5 /\ f.second_open
        counts == DequeAppend(finger_count_history, f.count)
        zones == DequeAppend(zone_history, f.zone)
        checked == Len(counts) >= 3
        stable == checked /\ StableGesture(counts, zones)
        frames1 == IF stable /\ ~gesture_confirmed
                   THEN confirmation_frames + 1 ELSE confirmation_frames
        confirms == stable /\ ~gesture_confirmed /\ ConfirmationReached(frames1)
        asked == confirms /\ GestureTyped(typing_enabled, both_hands_open)
        action == IF asked THEN process_gesture(f.count, f.zone, kb_now) ELSE None
        raised == action = "KeyError"
        executed == asked /\ action # None /\ ~raised
        lgt1 == IF executed THEN later ELSE last_gesture_time
        cycles == ~raised /\ ModeChangeDue(both_hands_open, kb_now, lgt1)
    IN  /\ kb_now' = later
        /\ finger_count_history' = counts
        /\ zone_history' = zones
        /\ current_zone' = f.zone
        /\ gesture_confirmed' =
             IF ~checked THEN gesture_confirmed
             ELSE IF stable THEN (gesture_confirmed \/ confirms) ELSE FALSE
        /\ confirmation_frames' =
             IF ~checked THEN confirmation_frames
             ELSE IF stable THEN frames1 ELSE 0
        /\ last_finger_count' =
             IF (checked /\ ~stable) \/ confirms THEN f.count
             ELSE last_finger_count
        /\ kb_action' = IF executed THEN action ELSE None
        /\ kb_mode_cycle' = cycles
        /\ mode_index' = IF cycles THEN next_mode_index(mode_index) ELSE mode_index
        /\ current_mode' =
             IF cycles THEN modes[next_mode_index(mode_index) + 1] ELSE current_mode
        /\ last_gesture_time' = IF cycles THEN later ELSE lgt1
        /\ kb_pc' = IF raised THEN "cleanup" ELSE "key"
        /\ KbObserve(f, executed, cycles, both_hands_open)
        /\ UNCHANGED typing_enabled

\* a frame with at least one hand
KbFrameHandsIn(F, horizon) ==
    /\ kb_pc = "read"
    /\ UNCHANGED <<vars, vkvars, lyvars, pgvars>>
    /\ \E f \in F :
          /\ f.tick_inside => kb_now < horizon
          /\ KbFrame(f)
    /\ UNCHANGED emit_log

\* the same frame, with the times of the symbols kept
KbFrameLoggedIn(F, horizon) ==
    /\ kb_pc = "read"
    /\ UNCHANGED <<vars, vkvars, lyvars, pgvars>>
    /\ \E f \in F :
          /\ f.tick_inside => kb_now < horizon
          /\ KbFrame(f)
    /\ emit_log' =
         IF kb_action' # None
         THEN (IF Len(emit_log) < 2 THEN emit_log ELSE Tail(emit_log))
              \o <<kb_now>>
         ELSE emit_log

\* run, lines 392-401: a frame without hands
KbFrameNoHands ==
    /\ kb_pc = "read"
    /\ UNCHANGED <<vars, vkvars, lyvars, pgvars>>
    /\ current_zone' = None
    /\ gesture_confirmed' = FALSE
    /\ confirmation_frames' = 0
    /\ kb_action' = None
    /\ kb_mode_cycle' = FALSE
    /\ kb_pc' = "key"
    /\ run_len' = 0
    /\ run_emits' = 0
    /\ open_since' = -1
    /\ open_last' = -1
    /\ open_cycles' = 0
    /\ UNCHANGED <<typing_enabled, last_gesture_time,
                   finger_count_history, last_finger_count, zone_history,
                   current_mode, mode_index, kb_now, cycle_log, emit_log>>

KbChannelUnchanged ==
    UNCHANGED <<last_gesture_time, finger_count_history, last_finger_count,
                gesture_confirmed, confirmation_frames, current_zone,
                zone_history, kb_now, kb_action, kb_mode_cycle>>

\* run, lines 322-325
KbCaptureFail ==
    /\ kb_pc = "read"
    /\ UNCHANGED <<vars, vkvars, lyvars, pgvars>>
    /\ kb_pc' = "cleanup"
    /\ KbChannelUnchanged /\ KbHistoryUnchanged
    /\ UNCHANGED <<typing_enabled, current_mode, mode_index>>

\* run, lines 410-420: the key read by cv2.waitKey(1)
KbKeyNone ==
    /\ kb_pc = "key"
    /\ UNCHANGED <<vars, vkvars, lyvars, pgvars>>
    /\ kb_pc' = "read"
    /\ KbChannelUnchanged /\ KbHistoryUnchanged
    /\ UNCHANGED <<typing_enabled, current_mode, mode_index>>

KbKeyQuit ==
    /\ kb_pc = "key"
    /\ UNCHANGED <<vars, vkvars, lyvars, pgvars>>
    /\ kb_pc' = "cleanup"
    /\ KbChannelUnchanged /\ KbHistoryUnchanged
    /\ UNCHANGED <<typing_enabled, current_mode, mode_index>>

KbKeyT ==
    /\ kb_pc = "key"
    /\ UNCHANGED <<vars, vkvars, lyvars, pgvars>>
    /\ typing_enabled' = ~typing_enabled
    /\ kb_pc' = "read"
    /\ run_len' = 0 /\ run_emits' = 0
    /\ KbChannelUnchanged
    /\ UNCHANGED <<current_mode, mode_index,
                   open_since, open_last, open_cycles, cycle_log, emit_log>>

\* key 'm': change_mode
KbKeyM ==
    /\ kb_pc = "key"
    /\ UNCHANGED <<vars, vkvars, lyvars, pgvars>>
    /\ mode_index' = next_mode_index(mode_index)
    /\ current_mode' = modes[next_mode_index(mode_index) + 1]
    /\ kb_pc' = "read"
    /\ run_len' = 0 /\ run_emits' = 0
    /\ KbChannelUnchanged
    /\ UNCHANGED <<typing_enabled, open_since, open_last, open_cycles,
                   cycle_log, emit_log>>

\* cleanup, lines 429-434
KbCleanup ==
    /\ kb_pc = "cleanup"
    /\ UNCHANGED <<vars, vkvars, lyvars, pgvars>>
    /\ kb_pc' = "done"
    /\ KbChannelUnchanged /\ KbHistoryUnchanged
    /\ UNCHANGED <<typing_enabled, current_mode, mode_index>>

(***************************************************************************)
(* VirtualKeyboard (webcam_virtual_keyboard.py): dwell / pinch selection.  *)
(* Ticks of 350 ms.                                                        *)
(***************************************************************************)
VkStartTime == 5
VkMaxElapsed == 5
\* ... in the runs that select keys of every kind
VkMaxElapsedKeys == 5

dwell_threshold == 2
select_debounce == 1
vk_pinch_on == 35
vk_pinch_off == 45

\* What the hand detector reports for one frame with a hand: the key under
\* the fingertip (key_at), the thumb-index distance, whether the index finger
\* points, and whether the clock ticks between the frame's read of time.time()
\* (line 232) and type_key's (line 80).
VkHand == [hover_label : {None, "A", "B", "Shift", "Caps"}, pinch_dist : {30, 50},
           index_ext : BOOLEAN, tick_inside : BOOLEAN]

VkMaxTime == VkStartTime + VkMaxElapsed

\* (variant: fires one tick early)
DwellDue_Early(current_time, started_at) ==
    current_time - started_at >= dwell_threshold - 1

\* line 238: the dwell time is reached
DwellDue(current_time, started_at) ==
    current_time - started_at >= dwell_threshold

\* (variant: no debounce)
SelectAccepted_Always(current_time, last_time) ==
    TRUE

\* type_key, lines 81-82: the selection passes the debounce
SelectAccepted(current_time, last_time) ==
    ~(current_time - last_time < select_debounce)

\* the letter keys of the layout (lines 30-36) that frames point at
Letters == {"A", "B"}

\* str.upper and str.lower on these letters
Upper == [c \in Letters |-> c]
Lower == "A" :> "a" @@ "B" :> "b"

\* shifted_char, lines 73-77: the substitutions of the digit keys that
\* frames point at
shift_map == "1" :> "!"

\* type_key, lines 86-96 and 109-111: the text of a key that is neither a
\* modifier nor a letter
OtherText(label, shift) ==
    IF label = "Space" THEN " "
    ELSE IF shift /\ label \in DOMAIN shift_map THEN shift_map[label]
    ELSE label

\* (variant: upper case when Caps or the Shift latch is set)
TypedText_CapsOrShift(label, caps, shift) ==
    IF label \in {"Shift", "Caps", "Ctrl", "Alt", "Win", "Menu"} THEN None
    ELSE IF label \in Letters
         THEN (IF caps \/ shift THEN Upper[label] ELSE Lower[label])
    ELSE OtherText(label, shift)

\* type_key, lines 86-116: the text typed for a label (None for a modifier)
TypedText(label, caps, shift) ==
    IF label \in {"Shift", "Caps", "Ctrl", "Alt", "Win", "Menu"} THEN None
    ELSE IF label \in Letters
         THEN (IF caps # shift THEN Upper[label] ELSE Lower[label])
    ELSE OtherText(label, shift)

\* (variant: every key but Shift clears the latch)
LatchAfter_ClearedByCaps(label, latched) ==
    label = "Shift"

\* type_key, lines 99-100 and 121-124: the Shift latch after an accepted
\* selection of label
LatchAfter(label, latched) ==
    IF label = "Shift" THEN TRUE
    ELSE IF latched /\ label \notin {"Shift", "Caps"} THEN FALSE
    ELSE latched

\* (variant: the debounce return inside the try statement, so that the
\* finally clause runs for a rejected selection too)
LatchRejected_Finally(label, latched) ==
    IF latched /\ label \notin {"Shift", "Caps"} THEN FALSE ELSE latched

\* type_key, lines 80-82: the Shift latch after a selection of label that
\* select_debounce rejects; the return precedes the try statement
LatchRejected(label, latched) ==
    latched

\* __init__, line 64
preview_max == 60

\* type_key, lines 86-120: len(preview_text) after an accepted selection of
\* label, n being the length before.  Backspace drops the last character;
\* Tab, Enter and Space append one and return; a one-character key appends
\* one and keeps the last preview_max characters.
PreviewAfter(label, n) ==
    IF label = "Backspace" THEN (IF n > 0 THEN n - 1 ELSE 0)
    ELSE IF label \in {"Tab", "Enter", "Space"} THEN n + 1
    ELSE IF label \in {"Caps", "Shift", "Ctrl", "Alt", "Win", "Menu"} THEN n
    ELSE IF n + 1 > preview_max THEN preview_max ELSE n + 1

\* frames of the runs that select keys of every kind: a letter, a digit, a
\* special key, and the modifiers
VkKeyHand == [hover_label : {None, "A", "1", "Space", "Ctrl", "Shift", "Caps"},
              pinch_dist : {30, 50}, index_ext : {TRUE},
              tick_inside : {FALSE}]

VkInit ==
    /\ selection_method = "dwell"
    /\ hover_key = None
    /\ hover_started_at = 0
    /\ last_select_time = 0
    /\ vk_pinch_active = FALSE
    /\ caps_lock = FALSE
    /\ shift_latched = FALSE
    /\ preview_len = 0
    /\ vk_now = VkStartTime
    /\ vk_pc = "read"
    /\ vk_selected = None
    /\ vk_typed = None
    /\ vk_hand_in_frame = FALSE
    /\ case_phase = 0
    /\ vk_gesture = None
    /\ dwell_since = -1
    /\ dwell_last = -1
    /\ dwell_events = 0

VkChannelUnchanged ==
    UNCHANGED <<hover_key, hover_started_at, last_select_time,
                vk_pinch_active, caps_lock, shift_latched, preview_len>>

\* run, line 207: cap.read() blocks until the next frame; the clock moves.
VkWaitUntil(horizon) ==
    /\ vk_pc = "read"
    /\ UNCHANGED <<vars, kbvars, lyvars, pgvars>>
    /\ vk_now < horizon
    /\ vk_now' = vk_now + 1
    /\ VkChannelUnchanged
    /\ UNCHANGED <<selection_method, vk_pc, vk_selected, vk_typed,
                   vk_hand_in_frame, dwell_since, dwell_last, dwell_events,
                   case_phase>>
    /\ vk_gesture' = None

\* The history of a frame with a hand that hovers label.
VkObserve(label, dwell, restarted, accepted) ==
    /\ case_phase' =
         IF ~accepted THEN case_phase
         ELSE IF label = "Shift" /\ ~caps_lock THEN 1
         ELSE IF label = "A" /\ case_phase = 1 THEN 2
         ELSE IF label = "B" /\ case_phase = 2 THEN 3
         ELSE 0
    /\ dwell_since' =
         IF ~dwell THEN -1
         ELSE IF restarted THEN vk_now
         ELSE IF dwell_since = -1 THEN -2
         ELSE dwell_since
    /\ dwell_last' =
         IF dwell /\ (restarted \/ dwell_since >= 0) THEN vk_now ELSE -1
    /\ dwell_events' =
         IF dwell /\ ~restarted /\ dwell_since >= 0
         THEN dwell_events + (IF accepted THEN 1 ELSE 0)
         ELSE 0

\* run, lines 221-256, with type_key (lines 79-124): a frame with a hand
VkFrame(f) ==
    LET later == IF f.tick_inside THEN vk_now + 1 ELSE vk_now
        dwell == selection_method = "dwell" /\ f.hover_label # None
        restarted == dwell /\ f.hover_label # hover_key
        started == IF restarted THEN vk_now ELSE hover_started_at
        due == dwell /\ DwellDue(vk_now, started)
        pinch == selection_method = "pinch" /\ f.index_ext
                 /\ f.hover_label # None
        released == pinch /\ vk_pinch_active /\ f.pinch_dist > vk_pinch_off
        armed == pinch /\ ~vk_pinch_active /\ f.pinch_dist < vk_pinch_on
        called == due \/ released
        accepted == called /\ SelectAccepted(later, last_select_time)
    IN  /\ vk_now' = IF called THEN later ELSE vk_now
        /\ hover_key' = f.hover_label
        /\ hover_started_at' =
             IF dwell /\ ~due THEN started ELSE vk_now
        /\ last_select_time' = IF accepted THEN later ELSE last_select_time
        /\ vk_pinch_active' =
             IF released THEN FALSE ELSE IF armed THEN TRUE ELSE vk_pinch_active
        /\ caps_lock' =
             IF accepted /\ f.hover_label = "Caps" THEN ~caps_lock ELSE caps_lock
        /\ shift_latched' =
             IF accepted THEN LatchAfter(f.hover_label, shift_latched)
             ELSE IF called THEN LatchRejected(f.hover_label, shift_latched)
             ELSE shift_latched
        /\ preview_len' =
             IF accepted THEN PreviewAfter(f.hover_label, preview_len)
             ELSE preview_len
        /\ vk_selected' = IF accepted THEN f.hover_label ELSE None
        /\ vk_typed' =
             IF accepted THEN TypedText(f.hover_label, caps_lock, shift_latched)
             ELSE None
        /\ VkObserve(f.hover_label, dwell, restarted, accepted)
        /\ vk_hand_in_frame' = TRUE
        /\ vk_gesture' = <<f.pinch_dist, f.index_ext>>
        /\ vk_pc' = "key"
        /\ UNCHANGED selection_method

\* a frame with a hand
VkFrameHandIn(F, horizon) ==
    /\ vk_pc = "read"
    /\ UNCHANGED <<vars, kbvars, lyvars, pgvars>>
    /\ \E f \in F :
          /\ f.tick_inside => vk_now < horizon
          /\ VkFrame(f)

\* run, lines 221 and 258-266: a frame without hands
VkFrameNoHand ==
    /\ vk_pc = "read"
    /\ UNCHANGED <<vars, kbvars, lyvars, pgvars>>
    /\ vk_pc' = "key"
    /\ vk_selected' = None
    /\ vk_typed' = None
    /\ vk_hand_in_frame' = FALSE
    /\ dwell_since' = -1
    /\ dwell_last' = -1
    /\ dwell_events' = 0
    /\ VkChannelUnchanged
    /\ vk_gesture' = None
    /\ UNCHANGED <<selection_method, vk_now, case_phase>>

\* run, lines 207-210
VkCaptureFail ==
    /\ vk_pc = "read"
    /\ UNCHANGED <<vars, kbvars, lyvars, pgvars>>
    /\ vk_pc' = "cleanup"
    /\ VkChannelUnchanged
    /\ UNCHANGED <<selection_method, vk_now, vk_selected, vk_typed,
                   vk_hand_in_frame, dwell_since, dwell_last, dwell_events,
                   case_phase>>
    /\ vk_gesture' = None

\* run, lines 267-271: the key read by cv2.waitKey(1)
VkKeyNone ==
    /\ vk_pc = "key"
    /\ UNCHANGED <<vars, kbvars, lyvars, pgvars>>
    /\ vk_pc' = "read"
    /\ VkChannelUnchanged
    /\ UNCHANGED <<selection_method, vk_now, vk_selected, vk_typed,
                   vk_hand_in_frame, dwell_since, dwell_last, dwell_events,
                   case_phase>>
    /\ vk_gesture' = None

VkKeyQuit ==
    /\ vk_pc = "key"
    /\ UNCHANGED <<vars, kbvars, lyvars, pgvars>>
    /\ vk_pc' = "cleanup"
    /\ VkChannelUnchanged
    /\ UNCHANGED <<selection_method, vk_now, vk_selected, vk_typed,
                   vk_hand_in_frame, dwell_since, dwell_last, dwell_events,
                   case_phase>>
    /\ vk_gesture' = None

\* key 'p': the other selection method
VkKeyP ==
    /\ vk_pc = "key"
    /\ UNCHANGED <<vars, kbvars, lyvars, pgvars>>
    /\ selection_method' = IF selection_method = "dwell" THEN "pinch" ELSE "dwell"
    /\ vk_pc' = "read"
    /\ dwell_since' = -1
    /\ dwell_last' = -1
    /\ dwell_events' = 0
    /\ VkChannelUnchanged
    /\ vk_gesture' = None
    /\ UNCHANGED <<vk_now, vk_selected, vk_typed, vk_hand_in_frame, case_phase>>

\* run, lines 274-278
VkCleanup ==
    /\ vk_pc = "cleanup"
    /\ UNCHANGED <<vars, kbvars, lyvars, pgvars>>
    /\ vk_pc' = "done"
    /\ VkChannelUnchanged
    /\ UNCHANGED <<selection_method, vk_now, vk_selected, vk_typed,
                   vk_hand_in_frame, dwell_since, dwell_last, dwell_events,
                   case_phase>>
    /\ vk_gesture' = None

\* The three controllers after construction.
\* ---------------------------------------------------------------------
\* process_gesture in every mode
\* ---------------------------------------------------------------------

\* count_fingers and get_hand_zone: the finger counts and zones a confirmed
\* gesture may have
FingerCounts == 0..5
Zones == SeqSet(zone_names) \cup {None}

PgInit ==
    /\ pg_input = None
    /\ pg_result = None

\* change_mode, lines 219-223 (the mode-change gesture or the key 'm')
PgChangeMode ==
    /\ UNCHANGED <<vars, vkvars, lyvars>>
    /\ mode_index' = next_mode_index(mode_index)
    /\ current_mode' = modes[next_mode_index(mode_index) + 1]
    /\ UNCHANGED <<typing_enabled, last_gesture_time,
                   finger_count_history, last_finger_count, gesture_confirmed,
                   confirmation_frames, current_zone, zone_history,
                   kb_now, kb_pc, kb_action, kb_mode_cycle, run_len, run_emits,
                   open_since, open_last, open_cycles, cycle_log, emit_log>>
    /\ pg_input' = None
    /\ pg_result' = None

\* run, line 382: process_gesture is called with a confirmed (count, zone)
PgProcessGesture ==
    /\ UNCHANGED <<vars, kbvars, vkvars, lyvars>>
    /\ \E finger_count \in FingerCounts, zone \in Zones :
          /\ pg_input' = <<finger_count, zone>>
          /\ pg_result' = process_gesture(finger_count, zone, kb_now)

\* ---------------------------------------------------------------------
\* The key rectangles of the virtual keyboard
\* ---------------------------------------------------------------------

\* frame widths and heights the camera delivers (pixels)
MinFrameWidth == 100
MaxFrameWidth == 130
FrameWidths == (MinFrameWidth..MaxFrameWidth) \cup {640, 1280}
FrameHeights == {100, 720}

\* __init__, lines 27-38: the rows of the layout; the width of a key is given
\* in quarters of a unit (1 unit = 4, 1.5 = 6, 1.75 = 7, 2.25 = 9, ...); the
\* label of the back-quote key is written "backquote"
layout ==
    << << <<"backquote", 4>>, <<"1", 4>>, <<"2", 4>>, <<"3", 4>>, <<"4", 4>>,
          <<"5", 4>>, <<"6", 4>>, <<"7", 4>>, <<"8", 4>>, <<"9", 4>>,
          <<"0", 4>>, <<"-", 4>>, <<"=", 4>>, <<"Backspace", 8>> >>,
       << <<"Tab", 6>>, <<"Q", 4>>, <<"W", 4>>, <<"E", 4>>, <<"R", 4>>,
          <<"T", 4>>, <<"Y", 4>>, <<"U", 4>>, <<"I", 4>>, <<"O", 4>>,
          <<"P", 4>>, <<"[", 4>>, <<"]", 4>>, <<"\\", 6>> >>,
       << <<"Caps", 7>>, <<"A", 4>>, <<"S", 4>>, <<"D", 4>>, <<"F", 4>>,
          <<"G", 4>>, <<"H", 4>>, <<"J", 4>>, <<"K", 4>>, <<"L", 4>>,
          <<";", 4>>, <<"'", 4>>, <<"Enter", 8>> >>,
       << <<"Shift", 9>>, <<"Z", 4>>, <<"X", 4>>, <<"C", 4>>, <<"V", 4>>,
          <<"B", 4>>, <<"N", 4>>, <<"M", 4>>, <<",", 4>>, <<".", 4>>,
          <<"/", 4>>, <<"Shift", 9>> >>,
       << <<"Ctrl", 5>>, <<"Win", 5>>, <<"Alt", 5>>, <<"Space", 24>>,
          <<"Alt", 5>>, <<"Menu", 5>>, <<"Ctrl", 5>> >> >>

\* calc_keyboard_rects, lines 128, 132, 141
margin == 10
row_gap == 6
col_gap == 6

\* int(a / b) for b > 0: the quotient truncated toward zero
TruncDiv(a, b) == IF a >= 0 THEN a \div b ELSE -((-a) \div b)

\* line 140: sum(k[1] for k in row), in quarters of a unit
RECURSIVE UnitsUpTo(_, _)
UnitsUpTo(row, n) == IF n = 0 THEN 0 ELSE UnitsUpTo(row, n - 1) + row[n][2]

total_units(row) == UnitsUpTo(row, Len(row))

\* line 142
available_w(row, w) == w - 2 * margin - col_gap * (Len(row) + 1)

\* lines 143 and 146: key_w = int(units * (available_w / total_units))
key_w(row, w, i) == TruncDiv(row[i][2] * available_w(row, w), total_units(row))

\* lines 144 and 153: x before key i of the row
RECURSIVE XBefore(_, _, _)
XBefore(row, w, i) ==
    IF i = 1 THEN margin + col_gap
    ELSE XBefore(row, w, i - 1) + key_w(row, w, i - 1) + col_gap

\* lines 129-134
top(h) == TruncDiv(h * 55, 100)
available_h(h) == (h - margin) - top(h) - row_gap * (Len(layout) + 1)
row_h(h) == TruncDiv(available_h(h), Len(layout))

\* lines 137 and 154: y of row r
YOfRow(h, r) == top(h) + row_gap + (r - 1) * (row_h(h) + row_gap)

\* lines 136-155: the rectangles, row by row
calc_keyboard_rects(w, h) ==
    [r \in 1..Len(layout) |->
        [i \in 1..Len(layout[r]) |->
            [label |-> layout[r][i][1],
             x1 |-> XBefore(layout[r], w, i),
             y1 |-> YOfRow(h, r),
             x2 |-> XBefore(layout[r], w, i) + key_w(layout[r], w, i),
             y2 |-> YOfRow(h, r) + row_h(h)]]]

\* __init__, lines 24-25 and 42: the frame size asked of the camera, and no
\* rectangles before the first frame
LyInit ==
    /\ frame_w = 1280
    /\ frame_h = 720
    /\ key_rects = <<>>
    /\ ly_pc = "read"

\* run, lines 206-210: a frame of some size is read
LyReadFrame ==
    /\ ly_pc = "read"
    /\ UNCHANGED <<vars, kbvars, vkvars, pgvars>>
    /\ \E w \in FrameWidths, h \in FrameHeights :
          /\ frame_w' = w
          /\ frame_h' = h
    /\ ly_pc' = "frame"
    /\ UNCHANGED key_rects

\* run, line 214, with calc_keyboard_rects (lines 126-155)
LyCalcKeyboardRects ==
    /\ ly_pc = "frame"
    /\ UNCHANGED <<vars, kbvars, vkvars, pgvars>>
    /\ key_rects' = calc_keyboard_rects(frame_w, frame_h)
    /\ ly_pc' = "read"
    /\ UNCHANGED <<frame_w, frame_h>>

Start == Init /\ KbInit /\ VkInit /\ LyInit /\ PgInit

allvars == <<vars, kbvars, vkvars, lyvars, pgvars>>

KbWait == KbWaitUntil(KbMaxTime)
KbFrameHands == KbFrameHandsIn(KbOneHand, KbMaxTime)

\* the typing runs: at most one hand in a frame
KbNext ==
    \/ KbWait
    \/ KbFrameHands
    \/ KbFrameNoHands
    \/ KbCaptureFail
    \/ KbKeyNone
    \/ KbKeyQuit
    \/ KbKeyT
    \/ KbKeyM
    \/ KbCleanup

SpecKeyboard == Start /\ [][KbNext]_allvars

KbWaitModes == KbWaitUntil(KbMaxTimeModes)
KbFrameTwoHands == KbFrameHandsIn(KbTwoHands, KbMaxTimeModes)

\* the mode-switch runs: two hands or none in a frame, the primary hand open,
\* typing left on
KbNextModes ==
    \/ KbWaitModes
    \/ KbFrameTwoHands
    \/ KbFrameNoHands
    \/ KbCaptureFail
    \/ KbKeyNone
    \/ KbKeyQuit
    \/ KbKeyM
    \/ KbCleanup

SpecModeSwitch ==
    Start /\ [][KbNextModes]_allvars

VkWait == VkWaitUntil(VkMaxTime)
VkFrameHand == VkFrameHandIn(VkHand, VkMaxTime)

VkNext ==
    \/ VkWait
    \/ VkFrameHand
    \/ VkFrameNoHand
    \/ VkCaptureFail
    \/ VkKeyNone
    \/ VkKeyQuit
    \/ VkKeyP
    \/ VkCleanup

SpecVirtual == Start /\ [][VkNext]_allvars

MaxTimeExample == StartTime + MaxElapsedExample
WaitFrameExample == WaitSeries(MaxTimeExample)
FrameHandExample == FrameHandSeriesIn(ExampleGestureData)

NextExample ==
    \/ WaitFrameExample
    \/ FrameHandExample
    \/ KeyNone

SpecExample == Start /\ [][NextExample]_allvars

VkMaxTimeKeys == VkStartTime + VkMaxElapsedKeys
VkWaitKeys == VkWaitUntil(VkMaxTimeKeys)
VkFrameHandKeys == VkFrameHandIn(VkKeyHand, VkMaxTimeKeys)

VkNextKeys ==
    \/ VkWaitKeys
    \/ VkFrameHandKeys
    \/ VkFrameNoHand
    \/ VkKeyNone
    \/ VkKeyP

SpecKeys == Start /\ [][VkNextKeys]_allvars

MaxTimeSecondary == StartTime + MaxElapsedSecondary
WaitFrameSecondary == WaitUntil(MaxTimeSecondary)
FrameHandSecondary == FrameHandIn(SecondaryGestureData)

NextSecondary ==
    \/ WaitFrameSecondary
    \/ FrameHandSecondary
    \/ FrameNoHand
    \/ KeyNone
    \/ KeyC

SpecSecondary == Start /\ [][NextSecondary]_allvars

KbWaitRepeat == KbWaitUntil(KbMaxTimeRepeat)
KbFrameRepeat == KbFrameLoggedIn(KbRepeatHand, KbMaxTimeRepeat)

KbNextRepeat ==
    \/ KbWaitRepeat
    \/ KbFrameRepeat
    \/ KbFrameNoHands
    \/ KbKeyNone

SpecRepeat == Start /\ [][KbNextRepeat]_allvars

KbWaitHeld == KbWaitUntil(KbMaxTimeHeld)
KbFrameHeld == KbFrameHandsIn(KbHeldHand, KbMaxTimeHeld)

KbNextHeld ==
    \/ KbWaitHeld
    \/ KbFrameHeld
    \/ KbFrameNoHands
    \/ KbKeyNone

\* The loop keeps iterating and the clock keeps moving until the horizon.
SpecHeld ==
    /\ Start
    /\ [][KbNextHeld]_allvars
    /\ WF_allvars(KbNextHeld)
    /\ SF_allvars(KbWaitHeld)

PgNext ==
    \/ PgChangeMode
    \/ PgProcessGesture

SpecGesture == Start /\ [][PgNext]_allvars

LyNext ==
    \/ LyReadFrame
    \/ LyCalcKeyboardRects

SpecLayout == Start /\ [][LyNext]_allvars

(***************************************************************************)
(* The pointer controller's loop.  The other controllers stay as           *)
(* constructed.                                                            *)
(***************************************************************************)
WaitFrame == WaitUntil(MaxTime)
FrameHand == FrameHandIn(GestureData)

Next ==
    \/ WaitFrame
    \/ FrameHand
    \/ FrameNoHand
    \/ CaptureFail
    \/ KeyNone
    \/ KeyQuit
    \/ KeyM
    \/ KeyC
    \/ KeySpace
    \/ Cleanup

Spec == Start /\ [][Next]_allvars

\* The pointer controller with the primary channel alone driven, over a
\* longer run.
WaitFramePrimary == WaitUntil(MaxTimePrimary)
FrameHandPrimary == FrameHandObservedIn(PrimaryGestureData)

NextPrimary ==
    \/ WaitFramePrimary
    \/ FrameHandPrimary
    \/ FrameNoHand
    \/ CaptureFail
    \/ KeyNone
    \/ KeyQuit
    \/ KeyM
    \/ KeyC
    \/ KeySpace
    \/ Cleanup

SpecPrimary ==
    Start /\ [][NextPrimary]_allvars

\* The pointer controller with input-sink calls that raise and with
\* KeyboardInterrupt.
WaitFrameFaults == WaitUntil(MaxTimeFaults)
FrameHandRaises == FrameHandRaisesIn(GestureData)

NextFaults ==
    \/ WaitFrameFaults
    \/ FrameHand
    \/ FrameHandRaises
    \/ FrameNoHand
    \/ CaptureFail
    \/ Interrupt
    \/ KeyNone
    \/ KeyQuit
    \/ KeyM
    \/ KeyC
    \/ KeySpace
    \/ KeySpaceRaises
    \/ Cleanup

SpecFaults == Start /\ [][NextFaults]_allvars

(***************************************************************************)
(* Properties of the pointer controller.                                   *)
(***************************************************************************)

\* C1: a drag in progress (drag_mode) and an armed secondary channel
\* (right_pinch_active) never hold at the same time.
C1_DragExcludesRightArmed == ~(drag_mode /\ right_pinch_active)

\* C2: the secondary channel never goes Idle -> Armed in a frame that leaves
\* the primary channel Armed or Active.
C2_NoSecondaryArmWhilePrimaryHeld ==
    [][(~right_pinch_active /\ right_pinch_active')
         => (~pinch_active' /\ ~drag_mode')]_vars

\* the secondary channel has just armed
C2_Witness ==
    right_pinch_active /\ right_pinch_started_at = now /\ pc = "key"

\* C3: a rightClick is never issued while a drag is in progress or the
\* primary channel is armed.
C3_NoRightClickWhilePrimaryHeld ==
    InSeq("rightClick", calls) => (~drag_mode /\ ~pinch_active)

\* a right-click was issued in this iteration
C3_Witness == InSeq("rightClick", calls) /\ pc = "key"

\* C4, as stated: an arm cycle released after a hold of at least
\* drag_hold_threshold emitted exactly mouseDown, mouseUp.
C4_LongHoldIsDrag ==
    (release_kind = "long") => (cycle_calls = <<"mouseDown", "mouseUp">>)

\* C4, amended: an arm cycle released after a hold of at least
\* drag_hold_threshold emitted no click; it emitted exactly mouseDown, mouseUp,
\* or nothing at all (no frame of the cycle saw the pinch held at or past the
\* threshold before the release frame).
C4_LongHoldNoClick ==
    (release_kind = "long")
        => (cycle_calls \in {<<"mouseDown", "mouseUp">>, <<>>})

\* a long hold that was a drag has just been released
C4_Witness ==
    release_kind = "long" /\ cycle_calls = <<"mouseDown", "mouseUp">>

\* C5: a series that dips below pinch_on, stays inside the band and rises
\* above pinch_off arms once, at the dip, and releases once, at the rise.
C5_Hysteresis ==
    /\ hyst_phase \in {"dip", "band"} => (hyst_arms = 1 /\ hyst_releases = 0)
    /\ hyst_phase \in {"rise", "rise0"} => (hyst_arms = 1 /\ hyst_releases = 1)

\* the series has gone through the band and risen above pinch_off
C5_Witness == hyst_phase = "rise" /\ hyst_releases = 1

\* C6: two consecutive click() calls are at least click_debounce apart.
C6_ClickSpacing ==
    Len(click_log) = 2 => (click_log[2] - click_log[1] >= click_debounce)

\* two clicks have been issued
C6_Witness == Len(click_log) = 2

\* C7 (as stated): a (count, zone) pair held for exactly required_confirmation
\* consecutive frames, the run starting at channel start or right after a
\* different pair, has emitted exactly one symbol.
C7_ExactRunEmitsOne == run_len = required_confirmation => run_emits = 1

\* C7 (amended): the run emits nothing in its first required_confirmation + 1
\* frames and exactly one symbol, in frame required_confirmation + 2, however
\* long it goes on.
C7_RunEmitsOnceAfterWindow ==
    /\ (run_len > 0 /\ run_len < required_confirmation + 2) => run_emits = 0
    /\ run_len >= required_confirmation + 2 => run_emits = 1

C7_Witness ==
    /\ run_len = required_confirmation + 2
    /\ run_emits = 1
    /\ kb_action # None

\* C8 (as stated): a continuous dwell hover of duration D on one key has
\* yielded exactly floor(D / dwell_threshold) selections.
C8_DwellEqualsFloor ==
    dwell_since >= 0 =>
        dwell_events = (dwell_last - dwell_since) \div dwell_threshold

\* C8 (amended): a continuous dwell hover that began with a change of the
\* hovered key has yielded at most floor(D / dwell_threshold) selections and at
\* least one once D reaches dwell_threshold; every frame whose hover time
\* reaches dwell_threshold selects and restarts the hover timer at that frame.
C8_DwellAtMostFloor ==
    dwell_since >= 0 =>
        /\ dwell_events * dwell_threshold <= dwell_last - dwell_since
        /\ dwell_last - dwell_since >= dwell_threshold => dwell_events >= 1
        /\ dwell_last - hover_started_at < dwell_threshold

C8_Witness ==
    /\ dwell_since >= 0
    /\ dwell_last - dwell_since = 2 * dwell_threshold
    /\ dwell_events = 1
    /\ vk_selected # None

\* C9 (as stated): both hands open in every frame of an interval longer than
\* the mode-switch cooldown give exactly one gesture mode change.
C9_ExactlyOneModeCycle ==
    (open_since >= 0 /\ open_last - open_since > mode_change_cooldown)
        => open_cycles = 1

\* C9 (amended): such an interval gives at least one gesture mode change, and
\* two consecutive gesture mode changes are more than the cooldown apart.
C9_ModeCyclesSpaced ==
    /\ (open_since >= 0 /\ open_last - open_since > mode_change_cooldown)
           => open_cycles >= 1
    /\ Len(cycle_log) = 2 => cycle_log[2] - cycle_log[1] > mode_change_cooldown

C9_Witness == open_cycles = 2 /\ kb_mode_cycle

\* C10: every typing mode visited is one of LETTERS, NUMBERS, ACTIONS and has
\* a symbol table.
C10_ModesHaveTables ==
    /\ current_mode \in {"LETTERS", "NUMBERS", "ACTIONS"}
    /\ current_mode \in DOMAIN character_maps

(***************************************************************************)
(* Faults, loop end and frames without a hand.                             *)
(***************************************************************************)

\* C11: an exception raised by an input-sink call never ends the frame loop.
C11_SinkFaultKeepsLoop == pc # "raised"

\* C12: however the pointer controller's loop ends, the capture device is
\* released before exit, a drag in progress at that point gets a mouseUp as
\* the last call, and nothing updates the channels after the loop has ended.
C12_LoopEndReleases ==
    /\ [](pc = "done" =>
            /\ cap_released
            /\ drag_mode => (calls # <<>> /\ calls[Len(calls)] = "mouseUp"))
    /\ [][(pc \in {"cleanup", "interrupted", "raised", "done"}) =>
            (UNCHANGED <<drag_mode, last_click_time, pinch_active,
                         pinch_started_at, right_pinch_active,
                         right_pinch_started_at, last_right_click_time,
                         cursor_history>>)]_vars

C12_Witness ==
    /\ pc = "done"
    /\ drag_mode
    /\ cap_released
    /\ calls[Len(calls)] = "mouseUp"

\* C13: a frame without a hand changes nothing of the click, drag and
\* right-click state and makes no input-sink call.
C13_NoHandFrameKeepsState ==
    [][(pc = "ready" /\ pc' = "key" /\ ~hand_in_frame') =>
         (/\ UNCHANGED <<pinch_active, drag_mode, right_pinch_active,
                         pinch_started_at, right_pinch_started_at,
                         last_click_time, last_right_click_time>>
          /\ calls' = <<>>)]_vars

\* a frame without a hand has passed during a drag
C13_Witness ==
    /\ pc = "key"
    /\ ~hand_in_frame
    /\ drag_mode
    /\ pinch_active

\* C16: recalibrate (the only key step that moves the clock) leaves the
\* smoothing history empty, both pinch channels idle and drag_mode false, and
\* issues mouseUp exactly when a drag was in progress.
C16_RecalibrateResets ==
    [][(pc = "key" /\ now' # now) =>
         (/\ cursor_history' = <<>>
          /\ ~pinch_active' /\ ~right_pinch_active' /\ ~drag_mode'
          /\ calls' = calls \o (IF drag_mode THEN <<"mouseUp">> ELSE <<>>))]_vars

\* recalibrate has released a drag (only its sleep moves the clock past the
\* last frame time)
C16_Witness ==
    /\ now > MaxTime
    /\ pc = "read"
    /\ cursor_history = <<>>
    /\ calls # <<>>
    /\ calls[Len(calls)] = "mouseUp"

\* C20: in an arm cycle mouseDown is issued at most once; it is issued only in
\* a frame that finds the pinch still held at or past drag_hold_threshold since
\* the arm; and every frame with click control on that finds the pinch still
\* held at or past the threshold leaves the drag started.
C20_DragStartOncePastThreshold ==
    /\ [](Occurrences("mouseDown", cycle_calls) <= 1)
    /\ [][(pc = "ready" /\ InSeq("mouseDown", calls')) =>
            (/\ pinch_active /\ pinch_active'
             /\ ~drag_mode /\ drag_mode'
             /\ now - pinch_started_at >= drag_hold_threshold)]_vars
    /\ [][(/\ pc = "ready" /\ hand_in_frame' /\ click_enabled
           /\ pinch_active /\ pinch_active'
           /\ now - pinch_started_at >= drag_hold_threshold) => drag_mode']_vars

\* the drag started in a frame later than the threshold
C20_Witness ==
    /\ pc = "key"
    /\ InSeq("mouseDown", calls)
    /\ drag_mode
    /\ now - pinch_started_at > drag_hold_threshold


\* C14: in the virtual keyboard a frame with zero detected hands resets the
\* selection channel to Idle: no hovered key is kept and the pinch is not
\* armed.  (Stated as the claim has it; the loop at lines 221-256 updates the
\* channel only inside the branch taken when a hand is detected.)
C14_NoHandResetsSelection ==
    (vk_pc = "key" /\ ~vk_hand_in_frame) =>
        (hover_key = None /\ ~vk_pinch_active)

\* C19: every accepted selection of a letter key types the upper-case letter
\* iff exactly one of Caps and the Shift latch is set when it is selected;
\* Caps changes only in a step that selects the Caps key; after Shift is
\* selected with Caps off, the next selection A types "A" and the selection B
\* that follows it types "b".
C19_CaseIsCapsXorShift ==
    /\ [][(vk_pc = "read" /\ vk_pc' = "key" /\ vk_selected' \in Letters) =>
            (vk_typed' = IF caps_lock # shift_latched
                         THEN Upper[vk_selected'] ELSE Lower[vk_selected'])]_vkvars
    /\ [][(caps_lock' # caps_lock) => (vk_selected' = "Caps")]_vkvars
    /\ [](/\ (case_phase = 2 /\ vk_selected = "A") => vk_typed = "A"
          /\ (case_phase = 3 /\ vk_selected = "B") => vk_typed = "b")

\* Shift, A and B were selected in this order and the B typed "b"
C19_Witness ==
    case_phase = 3 /\ vk_selected = "B" /\ vk_typed = "b" /\ ~caps_lock


\* C15: after a frame with zero detected hands (the only frames that clear
\* the current zone) the zone-typing channel is as at start-up: not
\* confirmed, run counter 0, and no stability credit, i.e. both histories
\* that the stability test reads are empty.  (Stated as the claim has it; the
\* branch at lines 392-396 leaves the two histories as they are.)
C15_NoHandsIsStartUp ==
    (kb_pc = "key" /\ current_zone = None) =>
        /\ ~gesture_confirmed
        /\ confirmation_frames = 0
        /\ finger_count_history = <<>>
        /\ zone_history = <<>>


\* C17: for every frame size calc_keyboard_rects gives every key rectangle a
\* positive width (x2 > x1).  (Stated as the claim has it; the divisors of
\* lines 134 and 143 are the constant row count and unit totals, so no
\* division by zero occurs, but no minimum width is applied.)
C17_KeyWidthFloor ==
    \A r \in DOMAIN key_rects : \A i \in DOMAIN key_rects[r] :
        key_rects[r][i].x2 > key_rects[r][i].x1


\* C18: a frame that releases the primary pinch with no drag started calls
\* click() iff the pinch was held for at most click_max_duration and more than
\* click_debounce has passed since the last click, and makes no other button
\* call; in both cases the channel is idle afterwards.  For the distances
\* 50, 40, 30, 20, 30, 40, 50 one tick (50 ms) apart with the index extended:
\* the pinch arms at the first 30, no button call is made while it is held,
\* and the final 50 releases it after 4 ticks (200 ms) with exactly one
\* click(), unless a click was made within click_debounce before.
C18_ReleaseClicksIff ==
    /\ [][(pc = "ready" /\ pc' = "key" /\ hand_in_frame'
           /\ pinch_active /\ ~pinch_active' /\ ~drag_mode) =>
            (/\ InSeq("click", calls') <=>
                   (/\ now - pinch_started_at <= click_max_duration
                    /\ now - last_click_time > click_debounce)
             /\ Occurrences("click", calls') <= 1
             /\ ~InSeq("mouseDown", calls') /\ ~InSeq("mouseUp", calls')
             /\ ~drag_mode')]_vars
    /\ [][(series_pos = 2 /\ series_pos' = 3) =>
            (~pinch_active /\ pinch_active' /\ pinch_started_at' = now)]_vars
    /\ [][(series_pos \in 3..5 /\ series_pos' = series_pos + 1) =>
            (/\ pinch_active' /\ ~drag_mode'
             /\ UNCHANGED pinch_started_at
             /\ ~InSeq("click", calls') /\ ~InSeq("mouseDown", calls')
             /\ ~InSeq("mouseUp", calls'))]_vars
    /\ [][(series_pos = 6 /\ series_pos' = 7) =>
            (/\ pinch_active /\ ~pinch_active'
             /\ now - pinch_started_at = 4
             /\ (now - last_click_time > click_debounce) =>
                    (/\ Occurrences("click", calls') = 1
                     /\ ~InSeq("mouseDown", calls')
                     /\ ~InSeq("mouseUp", calls')))]_vars

\* the final sample of the series was handled and its frame called click()
C18_Witness ==
    /\ series_pos = 7
    /\ pc = "key"
    /\ Occurrences("click", calls) = 1
    /\ last_click_time = now
    /\ ~pinch_active


\* C21: rightClick() is called only in a frame that releases the armed
\* secondary pinch (thumb-middle distance above right_off) and only if the
\* pinch was held for at least right_click_hold_threshold, once per frame;
\* a frame in which the primary channel is idle before and after makes no
\* drag call (mouseDown, mouseUp) and leaves drag_mode alone, whatever the
\* secondary channel does in it.
C21_RightClickOnHeldRelease ==
    /\ [][(InSeq("rightClick", calls') /\ calls' # calls) =>
            (/\ pc = "ready" /\ hand_in_frame'
             /\ right_pinch_active /\ ~right_pinch_active'
             /\ now - right_pinch_started_at >= right_click_hold_threshold
             /\ Occurrences("rightClick", calls') = 1)]_vars
    /\ [][(pc = "ready" /\ pc' = "key" /\ hand_in_frame'
           /\ ~pinch_active /\ ~pinch_active') =>
            (/\ ~InSeq("mouseDown", calls') /\ ~InSeq("mouseUp", calls')
             /\ UNCHANGED drag_mode)]_vars

\* a release of the secondary pinch after the hold threshold called
\* rightClick()
C21_Witness ==
    /\ pc = "key"
    /\ InSeq("rightClick", calls)
    /\ ~right_pinch_active
    /\ now - right_pinch_started_at >= right_click_hold_threshold
    /\ last_right_click_time = now

\* C22: the secondary pinch arms only when more than right_click_debounce has
\* passed since the last rightClick() that returned; last_right_click_time is
\* the time of that call, so two consecutive right clicks are more than
\* right_click_debounce apart.
C22_RightArmOutsideDebounce ==
    /\ [][(~right_pinch_active /\ right_pinch_active') =>
            (/\ now - last_right_click_time > right_click_debounce
             /\ right_pinch_started_at' = now)]_vars
    /\ [][(InSeq("rightClick", calls') /\ calls' # calls) =>
            (/\ now - last_right_click_time > right_click_debounce
             /\ right_pinch_started_at - last_right_click_time > right_click_debounce
             /\ last_right_click_time' = now)]_vars
    /\ [][(last_right_click_time' # last_right_click_time) =>
            InSeq("rightClick", calls')]_vars

\* the secondary pinch is armed again after a right click, the debounce
\* window over
C22_Witness ==
    /\ last_right_click_time >= StartTime
    /\ right_pinch_active
    /\ right_pinch_started_at > last_right_click_time + right_click_debounce


\* C23 (as stated): with the Shift latch set, an accepted selection of any
\* key other than Shift leaves the latch cleared.
C23_LatchClearedByAnyKey ==
    [][(vk_pc = "read" /\ vk_pc' = "key" /\ shift_latched
        /\ vk_selected' \notin {None, "Shift"}) => ~shift_latched']_vkvars

\* C23 (amended): with the Shift latch set, an accepted selection of a key
\* other than Shift and Caps (letter, digit, special key, Ctrl/Alt/Win/Menu)
\* leaves the latch cleared; an accepted selection of Shift or Caps leaves it
\* set; a frame that accepts no selection leaves it as it is.
C23_LatchClearedExceptByShiftCaps ==
    [][(vk_pc = "read" /\ vk_pc' = "key" /\ shift_latched) =>
         (shift_latched' <=> vk_selected' \in {None, "Shift", "Caps"})]_vkvars

\* Caps was selected with the latch set, and the latch is still set
C23_Witness ==
    vk_pc = "key" /\ vk_selected = "Caps" /\ shift_latched /\ caps_lock


\* C24: in the virtual keyboard every accepted key selection is at least
\* select_debounce after the accepted selection before it, whichever method
\* made either of them; last_select_time is the time of the last accepted
\* selection.
C24_SelectionsDebounced ==
    /\ [][(vk_pc = "read" /\ vk_pc' = "key" /\ vk_selected' # None) =>
            (/\ last_select_time' - last_select_time >= select_debounce
             /\ last_select_time' = vk_now')]_vkvars
    /\ [][(last_select_time' # last_select_time) =>
            (vk_pc = "read" /\ vk_selected' # None)]_vkvars

\* A is selected by dwell right after the accepted selection of Shift
C24_Witness ==
    /\ vk_pc = "key"
    /\ case_phase = 2
    /\ vk_selected = "A"
    /\ selection_method = "dwell"
    /\ last_select_time = vk_now

\* C25: in pinch selection mode the pinch is not armed after a frame with a
\* hand in which the thumb-index distance exceeds pinch_off or the index
\* finger is not extended (the release rule of the primary click channel).
\* (Stated as the claim has it; lines 247-256 test the release only inside
\* the branch taken when the index is extended and a key is hovered.)
C25_PinchReleasedLikePrimary ==
    (/\ vk_pc = "key"
     /\ vk_gesture # None
     /\ selection_method = "pinch"
     /\ (vk_gesture[1] > vk_pinch_off \/ ~vk_gesture[2]))
        => ~vk_pinch_active


\* C26: a frame whose finger count or zone differs from the frame before it
\* leaves the confirmation counter at 0 and the confirmed flag cleared and
\* executes no symbol; a frame that executes a symbol has reached
\* required_confirmation and ends a history window that shows one count and
\* one zone only.
C26_ChangeResetsConfirmation ==
    /\ [][(/\ kb_pc = "read"
           /\ finger_count_history # <<>>
           /\ \/ finger_count_history'[Len(finger_count_history')]
                    # finger_count_history[Len(finger_count_history)]
              \/ zone_history'[Len(zone_history')]
                    # zone_history[Len(zone_history)]) =>
            (/\ confirmation_frames' = 0
             /\ ~gesture_confirmed'
             /\ kb_action' = None)]_kbvars
    /\ [][(kb_pc = "read" /\ kb_pc' = "key" /\ kb_action' # None) =>
            (/\ confirmation_frames' >= required_confirmation
             /\ gesture_confirmed'
             /\ Cardinality(SeqSet(finger_count_history')) = 1
             /\ Cardinality(SeqSet(zone_history')) = 1)]_kbvars

\* four frames with one pair, then a frame with another zone: the two stable
\* frames counted before it are dropped
C26_Witness ==
    /\ kb_pc = "key"
    /\ Len(zone_history) = history_maxlen
    /\ Cardinality(SeqSet(SubSeq(zone_history, 1, 4))) = 1
    /\ zone_history[5] # zone_history[4]
    /\ Cardinality(SeqSet(finger_count_history)) = 1
    /\ confirmation_frames = 0
    /\ ~gesture_confirmed


\* C27: in every mode reached by mode changes, process_gesture returns " "
\* for count 0, "BACKSPACE" for count 5 in a top zone, otherwise the symbol
\* of the mode's table at (count, zone index), and None, never an exception,
\* when the mode has no entry for the pair.  (Stated as the claim has it; the
\* lookup at line 169 indexes character_maps with the mode unchecked.)
C27_ProcessGestureTotal ==
    pg_input # None =>
        LET finger_count == pg_input[1]
            zone == pg_input[2]
            mapped == /\ current_mode \in DOMAIN character_maps
                      /\ finger_count \in DOMAIN character_maps[current_mode]
        IN  pg_result =
              IF zone = None THEN None
              ELSE IF finger_count = 0 THEN " "
              ELSE IF finger_count = 5
                      /\ zone \in {"top_left", "top_center", "top_right"}
                   THEN "BACKSPACE"
              ELSE IF mapped
                   THEN character_maps[current_mode][finger_count]
                                      [get_zone_index(zone) + 1]
              ELSE None


\* C28: no frame of the zone keyboard both executes a symbol and changes the
\* mode by the two-hand gesture, and a frame in which both hands are open
\* executes no symbol.
C28_SymbolExcludesModeGesture ==
    /\ ~(kb_action # None /\ kb_mode_cycle)
    /\ (open_since # -1) => (kb_action = None)
    /\ kb_mode_cycle => (open_since # -1)

\* a frame with both hands open changed the mode, with the gesture of the
\* primary hand confirmed and typing on
C28_Witness ==
    /\ kb_pc = "key"
    /\ kb_mode_cycle
    /\ open_last = kb_now
    /\ gesture_confirmed
    /\ typing_enabled
    /\ kb_action = None


\* C29: a symbol of the zone keyboard is processed at least gesture_debounce
\* after the symbol before it, whether or not the two are the same symbol,
\* and at least gesture_debounce after last_gesture_time.
C29_SymbolsDebounced ==
    [][(kb_pc = "read" /\ kb_pc' = "key" /\ kb_action' # None) =>
         (/\ emit_log' # <<>> /\ emit_log'[Len(emit_log')] = kb_now
          /\ emit_log # <<>> =>
                 kb_now - emit_log[Len(emit_log)] >= gesture_debounce
          /\ kb_now - last_gesture_time >= gesture_debounce
          /\ last_gesture_time' >= kb_now)]_kbvars

\* the symbol "a" is executed a second time
C29_Witness ==
    /\ kb_pc = "key"
    /\ kb_action = "a"
    /\ Len(emit_log) = 2
    /\ emit_log[2] - emit_log[1] = gesture_debounce
    /\ Cardinality(SeqSet(finger_count_history)) = 1
    /\ Cardinality(SeqSet(zone_history)) = 1


\* C30: with typing on and one hand holding a mapped gesture, a gesture not
\* yet confirmed is followed by its symbol, unless a frame without hands
\* intervenes or the clock of the run stops inside the debounce window: the
\* debounce window delays the symbol, it does not drop it.  (Stated as the
\* claim has it; line 377 sets gesture_confirmed before process_gesture
\* applies the debounce, and a confirmed gesture is not processed again.)
C30_HeldGestureEmitted ==
    (/\ kb_pc = "key"
     /\ current_zone # None
     /\ typing_enabled
     /\ ~gesture_confirmed)
        ~> (\/ kb_action # None
            \/ current_zone = None
            \/ /\ kb_now = KbMaxTimeHeld
               /\ kb_now - last_gesture_time < gesture_debounce)


\* C31: within one frame iteration every timer comparison and every
\* timestamp update uses one clock value: in the zone keyboard, the
\* last_gesture_time a frame sets is the clock value that process_gesture
\* compared against in that frame.  (Stated as the claim has it; line 385
\* reads time.time() again after the symbol was executed.)
C31_OneClockPerFrame ==
    [][(kb_pc = "read" /\ kb_pc' = "key") =>
         (last_gesture_time' \in {last_gesture_time, kb_now})]_kbvars


\* ---------------------------------------------------------------------
\* Sequences of type_key calls
\* ---------------------------------------------------------------------

\* the keys the calls select: a letter, the three keys that append
\* white space, Backspace and the two modifiers with state
PreviewKeys == {"A", "Space", "Tab", "Enter", "Backspace", "Shift", "Caps"}

MaxElapsedPreview == 62
MaxTimePreview == VkStartTime + MaxElapsedPreview

\* type_key, lines 79-124, called with label when the clock reads
\* current_time: the debounce return of lines 81-82 comes before every
\* assignment and before the try statement whose finally clause clears the
\* latch.
type_key(label, current_time) ==
    LET accepted == SelectAccepted(current_time, last_select_time)
    IN  /\ vk_now' = current_time
        /\ last_select_time' =
             IF accepted THEN current_time ELSE last_select_time
        /\ caps_lock' =
             IF accepted /\ label = "Caps" THEN ~caps_lock ELSE caps_lock
        /\ shift_latched' =
             IF accepted THEN LatchAfter(label, shift_latched)
             ELSE LatchRejected(label, shift_latched)
        /\ preview_len' =
             IF accepted THEN PreviewAfter(label, preview_len)
             ELSE preview_len
        /\ vk_selected' = IF accepted THEN label ELSE None
        /\ vk_typed' =
             IF accepted THEN TypedText(label, caps_lock, shift_latched)
             ELSE None

\* one call of type_key, in the same tick as the previous call or one tick
\* later
VkTypeKeyIn(Keys, horizon) ==
    /\ vk_pc = "read"
    /\ UNCHANGED <<vars, kbvars, lyvars, pgvars>>
    /\ \E label \in Keys, elapsed \in {0, 1} :
         /\ vk_now + elapsed <= horizon
         /\ type_key(label, vk_now + elapsed)
    /\ UNCHANGED <<selection_method, hover_key, hover_started_at,
                   vk_pinch_active, vk_pc, vk_hand_in_frame, dwell_since,
                   dwell_last, dwell_events, case_phase, vk_gesture>>

VkTypeKey == VkTypeKeyIn(PreviewKeys, MaxTimePreview)

VkNextPreview == VkTypeKey

SpecPreview == Start /\ [][VkNextPreview]_allvars

\* C32: after any sequence of accepted key selections the preview buffer
\* holds at most preview_max characters.
C32_PreviewBounded == preview_len <= preview_max

\* C37: a selection that select_debounce rejects has no effect:
\* last_select_time, Caps, the Shift latch and the preview buffer are
\* unchanged and no sink call is made.  (Every step of SpecPreview is one
\* call of type_key at the clock value vk_now'.)
C37_RejectedSelectionNoEffect ==
    [][(vk_now' - last_select_time < select_debounce) =>
         /\ last_select_time' = last_select_time
         /\ caps_lock' = caps_lock
         /\ shift_latched' = shift_latched
         /\ preview_len' = preview_len
         /\ vk_selected' = None
         /\ vk_typed' = None]_vkvars

\* a rejected call has just left a pending Shift latch and a non-empty
\* preview in place
C37_Witness ==
    /\ shift_latched
    /\ preview_len > 0
    /\ vk_selected = None
    /\ vk_now - last_select_time < select_debounce


\* ---------------------------------------------------------------------
\* The cursor smoother
\* ---------------------------------------------------------------------

\* fingertip positions of the runs that watch the smoothing window
SmoothPositions == {<<0, 0>>, <<40, 20>>}

SmoothGestureData == [index_extended : BOOLEAN,
                      thumb_index_distance : {50},
                      thumb_middle_distance : {50},
                      cursor_pos : SmoothPositions]

MaxElapsedSmooth == 13
MaxTimeSmooth == StartTime + MaxElapsedSmooth

\* smooth_cursor_position, line 81: np.linspace(0.1, 1.0, n)[i - 1], times
\* 10 * (n - 1)
Weight(i, n) == (n - 1) + 9 * (i - 1)

RECURSIVE WeightsUpTo(_, _)
WeightsUpTo(i, n) == IF i = 0 THEN 0 ELSE WeightsUpTo(i - 1, n) + Weight(i, n)

\* lines 84-85: the sum of one coordinate of the window times the weights
RECURSIVE WeightedUpTo(_, _, _)
WeightedUpTo(history, c, i) ==
    IF i = 0 THEN 0
    ELSE WeightedUpTo(history, c, i - 1)
         + history[i][c] * Weight(i, Len(history))

\* lines 82-87: int() of the weighted average of one coordinate.  The
\* weights are floating-point numbers: where the exact average is a whole
\* number above 0, the sum may fall just below it and int() cuts it to the
\* number before.
SmoothCoordinates(history, c) ==
    LET total == WeightedUpTo(history, c, Len(history))
        weights == WeightsUpTo(Len(history), Len(history))
        exact == TruncDiv(total, weights)
    IN  IF total > 0 /\ exact * weights = total THEN {exact, exact - 1}
        ELSE {exact}

\* lines 79-89: the positions smooth_cursor_position may return for the
\* window history, whose newest sample is pos
SmoothResults(history, pos) ==
    IF Len(history) > 1
    THEN {<<x, y>> : x \in SmoothCoordinates(history, 1),
                     y \in SmoothCoordinates(history, 2)}
    ELSE {pos}

\* run, lines 256-272: a frame with a hand, with the call of
\* smooth_cursor_position kept
FrameHandSmoothedIn(G) ==
    /\ pc = "ready"
    /\ UNCHANGED <<kbvars, vkvars, lyvars, pgvars, series_pos, series_gap>>
    /\ \E g \in G :
          /\ HandleMouseControl(g)
          /\ IF mouse_control_enabled /\ g.index_extended
             THEN \E out \in SmoothResults(cursor_history', g.cursor_pos) :
                     smooth_call' =
                        [raw |-> g.cursor_pos, out |-> out,
                         evicted |->
                            IF Len(cursor_history) = cursor_history_maxlen
                            THEN <<cursor_history[1]>> ELSE <<>>]
             ELSE smooth_call' = NoSmoothCall
    /\ pc' = "key"
    /\ hand_in_frame' = TRUE
    /\ UNCHANGED now
    /\ ControlUnchanged /\ RunUnchanged /\ HistoryUnchanged

WaitFrameSmooth == WaitUntil(MaxTimeSmooth)
FrameHandSmooth == FrameHandSmoothedIn(SmoothGestureData)

NextSmooth ==
    \/ WaitFrameSmooth
    \/ FrameHandSmooth
    \/ KeyNone
    \/ KeyM
    \/ KeySpace

SpecSmooth == Start /\ [][NextSmooth]_allvars

\* the newest n elements of a sequence
LastN(s, n) == IF Len(s) <= n THEN s ELSE SubSeq(s, Len(s) - n + 1, Len(s))

\* C33: the cursor smoother keeps a FIFO of at most 5 raw positions, evicting
\* the oldest on overflow; it returns the raw position when the window holds
\* fewer than 2 samples, which is the case exactly for the first sample after
\* start-up and after each recalibrate, and the weighted average of the
\* window otherwise.
C33_SmootherWindow ==
    /\ [](Len(cursor_history) <= 5)
    /\ [][(pc = "ready" /\ pc' = "key" /\ smooth_call' # NoSmoothCall) =>
            /\ cursor_history' =
                 LastN(cursor_history \o <<smooth_call'.raw>>, 5)
            /\ (Len(cursor_history') < 2) <=> (cursor_history = <<>>)
            /\ Len(cursor_history') < 2 =>
                 smooth_call'.out = smooth_call'.raw
            /\ Len(cursor_history') >= 2 =>
                 smooth_call'.out \in
                    SmoothResults(cursor_history', smooth_call'.raw)]_vars
    /\ [][(cursor_history' = <<>> /\ cursor_history # <<>>) =>
            (pc = "key" /\ pc' = "read"
             /\ now' = now + recalibrate_sleep)]_vars

\* the window is full, its oldest sample was evicted, and the position
\* returned is not the raw one
C33_Witness ==
    /\ smooth_call # NoSmoothCall
    /\ Len(cursor_history) = 5
    /\ smooth_call.evicted = <<<<40, 20>>>>
    /\ cursor_history[1] = <<0, 0>>
    /\ smooth_call.out # smooth_call.raw

\* the first sample after a recalibrate is returned as it is
C33_WitnessRecalibrated ==
    /\ smooth_call # NoSmoothCall
    /\ Len(cursor_history) = 1
    /\ now > StartTime + recalibrate_sleep
    /\ smooth_call.out = <<40, 20>>


\* C34: while the loop of the pointer controller runs, drag_mode implies
\* pinch_active: a drag is in progress only inside an arm cycle of the
\* primary pinch channel.
C34_DragInsideArmCycle ==
    pc \in {"read", "ready", "key"} => (drag_mode => pinch_active)

\* a drag is in progress after a frame
C34_Witness ==
    /\ pc = "key"
    /\ drag_mode
    /\ pinch_active
    /\ InSeq("mouseDown", calls)


\* C36: a frame handled while click control is off changes none of the
\* channel fields (pinch_active, drag_mode, right_pinch_active, the arm
\* timestamps, the last-click times) and makes no button call; while click
\* control is off a mouseUp is issued only by recalibrate or by cleanup, and
\* drag_mode is cleared only by recalibrate.
C36_ClickControlOffFreezesChannels ==
    /\ [][(pc = "ready" /\ pc' = "key" /\ hand_in_frame' /\ ~click_enabled) =>
            /\ UNCHANGED <<pinch_active, drag_mode, right_pinch_active,
                           pinch_started_at, right_pinch_started_at,
                           last_click_time, last_right_click_time>>
            /\ \A i \in 1..Len(calls') : calls'[i] = "moveTo"]_vars
    /\ [][(~click_enabled
           /\ Occurrences("mouseUp", calls') > Occurrences("mouseUp", calls))
          => ((pc = "key" /\ pc' = "read") \/ pc' = "done")]_vars
    /\ [][(~click_enabled /\ drag_mode /\ ~drag_mode')
          => (pc = "key" /\ pc' = "read"
              /\ now' = now + recalibrate_sleep)]_vars

\* a frame with a hand was handled with click control off and a drag in
\* progress, and the drag is still held
C36_Witness ==
    /\ pc = "key"
    /\ hand_in_frame
    /\ ~click_enabled
    /\ drag_mode
    /\ pinch_active
    /\ calls = <<"moveTo">>


\* ---------------------------------------------------------------------
\* Whole runs with drags
\* ---------------------------------------------------------------------

\* frames with the index extended, the primary pinch closed or open and
\* the secondary pinch open
DragGestureData == [index_extended : {TRUE},
                    thumb_index_distance : {20, 50},
                    thumb_middle_distance : {50},
                    cursor_pos : CursorPositions]

MaxElapsedDrag == 18
MaxTimeDrag == StartTime + MaxElapsedDrag

WaitFrameDrag == WaitUntil(MaxTimeDrag)
FrameHandDrag == FrameHandIn(DragGestureData)

NextDrag ==
    \/ WaitFrameDrag
    \/ FrameHandDrag
    \/ FrameNoHand
    \/ KeyNone
    \/ KeyQuit
    \/ KeyC
    \/ KeySpace
    \/ Cleanup

SpecDrag == Start /\ [][NextDrag]_allvars

\* C35: with input-sink calls that return, the mouseDown and mouseUp calls
\* of a whole run (gesture release, recalibrate and cleanup included)
\* alternate strictly, starting with mouseDown, and while the loop runs the
\* button is down iff drag_mode is true.
C35_ButtonCallsAlternate ==
    /\ \A i \in 1..Len(button_log) :
          button_log[i] = IF i % 2 = 1 THEN "mouseDown" ELSE "mouseUp"
    /\ pc \in {"read", "ready", "key"} =>
          (drag_mode <=> (Len(button_log) % 2 = 1))

\* a second drag, the first one ended by a gesture release or recalibrate,
\* was released by cleanup
C35_Witness ==
    /\ pc = "done"
    /\ drag_mode
    /\ Len(button_log) = 4
    /\ InSeq("mouseUp", calls)

=============================================================================
